---- MODULE Spec2Model ----
(***************************************************************************)
(* sync-dir: the scan -> plan -> execute pipeline of pkg/syncer.           *)
(*                                                                         *)
(* Relative paths are Go strings, modelled as sequences of byte values so  *)
(* that the string comparison and the separator count of the sort          *)
(* comparator are computed as the code computes them.  A file tree is a    *)
(* function from paths to nodes; the empty path stands for the tree root.  *)
(* Modification times are counted in ticks, Second ticks to the second.    *)
(* The content of a file is a small integer and its size is a     *)
(* function of the content.                                                *)
(***************************************************************************)
EXTENDS Integers, Sequences, FiniteSets

\* ------------------------------------------------------------------------
\* Bounds
\* ------------------------------------------------------------------------
MaxTick == 2
MaxSize == 2
MaxContent == 3
Wide == 10
MaxFaults == 1
MaxMarked == 2

\* ------------------------------------------------------------------------
\* Paths
\* ------------------------------------------------------------------------
Sep == 47

Root == << >>

pA == <<97>>

pAB == <<97, 47, 98>>

pC == <<99>>

SmallPaths == {pA, pAB, pC}

WidePaths == { <<119, 48 + i>> : i \in 1..Wide }

Paths == SmallPaths \cup WidePaths

Nodes == Paths \cup {Root}

RECURSIVE StrLess(_, _)
StrLess(s, t) ==
    IF t = << >> THEN FALSE
    ELSE IF s = << >> THEN TRUE
    ELSE IF Head(s) # Head(t) THEN Head(s) < Head(t)
    ELSE StrLess(Tail(s), Tail(t))

RECURSIVE Count(_, _)
Count(s, ch) ==
    IF s = << >> THEN 0
    ELSE (IF Head(s) = ch THEN 1 ELSE 0) + Count(Tail(s), ch)

\* filepath.Dir of a clean relative path; Root when there is no separator
Dir(p) ==
    LET seps == { i \in 1..Len(p) : p[i] = Sep }
    IN  IF seps = {} THEN Root
        ELSE LET last == CHOOSE i \in seps : \A j \in seps : j <= i
             IN  SubSeq(p, 1, last - 1)

\* p is a proper ancestor directory path of q
IsAncestor(p, q) ==
    \/ p = Root /\ q # Root
    \/ /\ p # Root
       /\ Len(p) < Len(q)
       /\ SubSeq(q, 1, Len(p)) = p
       /\ q[Len(p) + 1] = Sep

Ancestors(q) == { p \in Nodes : IsAncestor(p, q) }

\* ------------------------------------------------------------------------
\* Time
\* ------------------------------------------------------------------------
\* time.Second, in ticks
Second == 2

ModTimes == 0 .. MaxTick

\* a comparison of the raw modification times, without truncation
TruncateNot(t, d) == t

\* a truncation that takes every time to zero
TruncateAll(t, d) == 0

\* time.Time.Truncate(d)
Truncate(t, d) == t - (t % d)

\* ------------------------------------------------------------------------
\* fileinfo.FileInfo and the two mappings
\* ------------------------------------------------------------------------
nil == [nil |-> TRUE]

AbsPath(root, rel) == [root |-> root, rel |-> rel]

New(root, rel, size, modTime, isDir) ==
    [RelPath |-> rel, AbsPath |-> AbsPath(root, rel), Size |-> size,
     ModTime |-> modTime, IsDir |-> isDir]

\* outcome of one digest computation
ChecksumOk(d) == [checksum |-> d, err |-> "nil"]

ChecksumErr(e) == [checksum |-> 0, err |-> e]

IsNotExist(e) == e = "ENOENT"

\* the SHA-256 digest of a content, taken to be free of collisions
calculateSHA256Internal(content) == 256 + content

\* ------------------------------------------------------------------------
\* pkg/fileinfo: NeedsUpdate
\* ------------------------------------------------------------------------
\* The result carries, besides the two return values, the digest
\* computations the call has requested, in order.
NeedsUpdateResult(b, e, calls) == [needsUpdate |-> b, err |-> e, calls |-> calls]

\* a comparison that computes both digests of every pair of files
NeedsUpdateByDigest(fi, targetFi, calculateChecksum) ==
    IF fi.IsDir # targetFi.IsDir THEN NeedsUpdateResult(TRUE, "nil", << >>)
    ELSE IF fi.IsDir THEN NeedsUpdateResult(FALSE, "nil", << >>)
    ELSE NeedsUpdateResult(fi.Size # targetFi.Size
                             \/ calculateChecksum[fi.AbsPath] # calculateChecksum[targetFi.AbsPath],
                           "nil", <<fi.AbsPath, targetFi.AbsPath>>)

NeedsUpdate(fi, targetFi, calculateChecksum) ==
    IF fi.IsDir # targetFi.IsDir THEN NeedsUpdateResult(TRUE, "nil", << >>)
    ELSE IF fi.IsDir THEN NeedsUpdateResult(FALSE, "nil", << >>)
    ELSE
      LET timeDiffers == Truncate(fi.ModTime, Second) # Truncate(targetFi.ModTime, Second)
          sizeDiffers == fi.Size # targetFi.Size
      IN  IF sizeDiffers THEN NeedsUpdateResult(TRUE, "nil", << >>)
          ELSE IF timeDiffers THEN
            LET source == calculateChecksum[fi.AbsPath]
                target == calculateChecksum[targetFi.AbsPath]
            IN  IF source.err # "nil"
                  THEN NeedsUpdateResult(FALSE, "source checksum failed", <<fi.AbsPath>>)
                ELSE IF target.err # "nil"
                  THEN IF IsNotExist(target.err)
                         THEN NeedsUpdateResult(TRUE, "nil", <<fi.AbsPath, targetFi.AbsPath>>)
                         ELSE NeedsUpdateResult(FALSE, "target checksum failed",
                                                <<fi.AbsPath, targetFi.AbsPath>>)
                ELSE NeedsUpdateResult(source.checksum # target.checksum, "nil",
                                       <<fi.AbsPath, targetFi.AbsPath>>)
          ELSE NeedsUpdateResult(FALSE, "nil", << >>)

\* ------------------------------------------------------------------------
\* pkg/syncer/plan.go
\* ------------------------------------------------------------------------
Add == 0

Update == 1

Delete == 2

None == 3

SyncAction(type, sourceInfo, targetInfo, relPath) ==
    [Type |-> type, SourceInfo |-> sourceInfo, TargetInfo |-> targetInfo, RelPath |-> relPath]

\* an append whose Deletes counter is never incremented
appendActionNoDeletes(plan, action) ==
    [Actions |-> Append(plan.Actions, action),
     Adds    |-> plan.Adds + (IF action.Type = Add THEN 1 ELSE 0),
     Updates |-> plan.Updates + (IF action.Type = Update THEN 1 ELSE 0),
     Deletes |-> plan.Deletes]

\* plan.Actions = append(plan.Actions, action) followed by the counter increment
\* that the code pairs with every append
appendAction(plan, action) ==
    [Actions |-> Append(plan.Actions, action),
     Adds    |-> plan.Adds + (IF action.Type = Add THEN 1 ELSE 0),
     Updates |-> plan.Updates + (IF action.Type = Update THEN 1 ELSE 0),
     Deletes |-> plan.Deletes + (IF action.Type = Delete THEN 1 ELSE 0)]

\* a planner without the file-versus-directory branch
typesDifferNever(sourceFi, targetFi) == FALSE

\* sourceFi.IsDir != targetFi.IsDir
typesDiffer(sourceFi, targetFi) == sourceFi.IsDir # targetFi.IsDir

\* a planner that keeps NeedsUpdate's answer when the comparison failed
skipOnError(res) == res.needsUpdate

\* the planner's treatment of a comparison error: assume an update is needed
assumeUpdateOnError(res) == IF res.err # "nil" THEN TRUE ELSE res.needsUpdate

\* body of the loop over sourceFiles; ls is the state of the function:
\* the plan so far, processedTargetFiles and the digest requests made
sourceStep(ls, relPath, sourceFiles, targetFiles, calculateChecksum) ==
    LET sourceFi == sourceFiles[relPath]
        existsInTarget == relPath \in DOMAIN targetFiles
        processed == ls.processedTargetFiles \cup {relPath}
        action == SyncAction(Add, sourceFi, nil, relPath)
    IN  IF ~existsInTarget
          THEN [ls EXCEPT !.plan = appendAction(@, action),
                          !.processedTargetFiles = processed]
        ELSE
          LET targetFi == targetFiles[relPath]
              both == [action EXCEPT !.TargetInfo = targetFi]
          IN  IF typesDiffer(sourceFi, targetFi)
                THEN [ls EXCEPT
                        !.plan = appendAction(
                                   appendAction(@, SyncAction(Delete, nil, targetFi, relPath)),
                                   [both EXCEPT !.Type = Add]),
                        !.processedTargetFiles = processed]
              ELSE IF ~sourceFi.IsDir
                THEN LET res == NeedsUpdate(sourceFi, targetFi, calculateChecksum)
                         needsUpdate == assumeUpdateOnError(res)
                     IN  [ls EXCEPT
                            !.plan = IF needsUpdate
                                       THEN appendAction(@, [both EXCEPT !.Type = Update])
                                       ELSE @,
                            !.processedTargetFiles = processed,
                            !.calls = @ \o res.calls]
              ELSE [ls EXCEPT !.processedTargetFiles = processed]

\* a target loop that does not consult processedTargetFiles
targetStepAll(ls, relPath, targetFiles) ==
    [ls EXCEPT !.plan = appendAction(@, SyncAction(Delete, nil, targetFiles[relPath], relPath))]

\* a target loop that plans nothing
targetStepSkip(ls, relPath, targetFiles) == ls

\* body of the loop over targetFiles
targetStep(ls, relPath, targetFiles) ==
    IF relPath \notin ls.processedTargetFiles
      THEN [ls EXCEPT !.plan = appendAction(@, SyncAction(Delete, nil, targetFiles[relPath], relPath))]
      ELSE ls

\* a loop over sourceFiles that ends at the first comparison that fails
RECURSIVE rangeSourceAbort(_, _, _, _, _)
rangeSourceAbort(ls, order, sourceFiles, targetFiles, calculateChecksum) ==
    IF order = << >> THEN ls
    ELSE LET relPath == Head(order)
             failed == /\ relPath \in DOMAIN targetFiles
                       /\ NeedsUpdate(sourceFiles[relPath], targetFiles[relPath],
                                      calculateChecksum).err # "nil"
         IN  IF failed THEN ls
             ELSE rangeSourceAbort(sourceStep(ls, relPath, sourceFiles, targetFiles, calculateChecksum),
                                   Tail(order), sourceFiles, targetFiles, calculateChecksum)

\* for relPath, sourceFi := range sourceFiles
RECURSIVE rangeSource(_, _, _, _, _)
rangeSource(ls, order, sourceFiles, targetFiles, calculateChecksum) ==
    IF order = << >> THEN ls
    ELSE rangeSource(sourceStep(ls, Head(order), sourceFiles, targetFiles, calculateChecksum),
                     Tail(order), sourceFiles, targetFiles, calculateChecksum)

RECURSIVE rangeTarget(_, _, _)
rangeTarget(ls, order, targetFiles) ==
    IF order = << >> THEN ls
    ELSE rangeTarget(targetStep(ls, Head(order), targetFiles), Tail(order), targetFiles)

\* a depth that is the same for every path
depthFlat(relPath) == 0

\* filepath.Clean on a relative path without "." and ".." elements:
\* runs of separators collapse and a trailing separator is dropped
RECURSIVE Clean(_)
Clean(p) ==
    IF p = << >> THEN << >>
    ELSE IF Head(p) = Sep /\ (Len(p) = 1 \/ p[2] = Sep) THEN Clean(Tail(p))
    ELSE <<Head(p)>> \o Clean(Tail(p))

\* strings.Count(filepath.Clean(RelPath), string(os.PathSeparator))
depth(relPath) == Count(Clean(relPath), Sep)

\* a comparator without the two branches that put Deletes first
lessByPath(actionI, actionJ) ==
    IF actionI.Type = Delete /\ actionJ.Type = Delete
      THEN IF depth(actionI.RelPath) # depth(actionJ.RelPath)
             THEN depth(actionI.RelPath) > depth(actionJ.RelPath)
             ELSE StrLess(actionI.RelPath, actionJ.RelPath)
    ELSE IF actionI.Type = Update /\ actionJ.Type = Add THEN TRUE
    ELSE IF actionI.Type = Add /\ actionJ.Type = Update THEN FALSE
    ELSE StrLess(actionI.RelPath, actionJ.RelPath)

\* a comparator without the two branches that put Updates before Adds
lessKindBlind(actionI, actionJ) ==
    IF actionI.Type = Delete /\ actionJ.Type # Delete THEN TRUE
    ELSE IF actionI.Type # Delete /\ actionJ.Type = Delete THEN FALSE
    ELSE IF actionI.Type = Delete /\ actionJ.Type = Delete
      THEN IF depth(actionI.RelPath) # depth(actionJ.RelPath)
             THEN depth(actionI.RelPath) > depth(actionJ.RelPath)
             ELSE StrLess(actionI.RelPath, actionJ.RelPath)
    ELSE StrLess(actionI.RelPath, actionJ.RelPath)

\* a comparator without the comparisons of paths and depths
lessByType(actionI, actionJ) ==
    IF actionI.Type = Delete /\ actionJ.Type # Delete THEN TRUE
    ELSE IF actionI.Type # Delete /\ actionJ.Type = Delete THEN FALSE
    ELSE IF actionI.Type = Update /\ actionJ.Type = Add THEN TRUE
    ELSE FALSE

\* a comparator that puts the deeper path first among Adds and Updates too
lessDeepFirst(actionI, actionJ) ==
    IF actionI.Type = Delete /\ actionJ.Type # Delete THEN TRUE
    ELSE IF actionI.Type # Delete /\ actionJ.Type = Delete THEN FALSE
    ELSE IF actionI.Type = Update /\ actionJ.Type = Add THEN TRUE
    ELSE IF actionI.Type = Add /\ actionJ.Type = Update THEN FALSE
    ELSE IF depth(actionI.RelPath) # depth(actionJ.RelPath)
      THEN depth(actionI.RelPath) > depth(actionJ.RelPath)
    ELSE StrLess(actionI.RelPath, actionJ.RelPath)

\* the comparator handed to sort.SliceStable
less(actionI, actionJ) ==
    IF actionI.Type = Delete /\ actionJ.Type # Delete THEN TRUE
    ELSE IF actionI.Type # Delete /\ actionJ.Type = Delete THEN FALSE
    ELSE IF actionI.Type = Delete /\ actionJ.Type = Delete
      THEN IF depth(actionI.RelPath) # depth(actionJ.RelPath)
             THEN depth(actionI.RelPath) > depth(actionJ.RelPath)
             ELSE StrLess(actionI.RelPath, actionJ.RelPath)
    ELSE IF actionI.Type = Update /\ actionJ.Type = Add THEN TRUE
    ELSE IF actionI.Type = Add /\ actionJ.Type = Update THEN FALSE
    ELSE StrLess(actionI.RelPath, actionJ.RelPath)

\* one pass of the insertion sort: x moves left while it is less than its
\* predecessor
RECURSIVE insertLeft(_, _)
insertLeft(sorted, x) ==
    IF sorted = << >> \/ ~less(x, sorted[Len(sorted)])
      THEN Append(sorted, x)
      ELSE Append(insertLeft(SubSeq(sorted, 1, Len(sorted) - 1), x), sorted[Len(sorted)])

\* sort.SliceStable: an insertion sort for slices of at most 20 elements
RECURSIVE SliceStable(_)
SliceStable(s) ==
    IF s = << >> THEN << >>
    ELSE insertLeft(SliceStable(SubSeq(s, 1, Len(s) - 1)), s[Len(s)])

\* the keys of S in ascending order
RECURSIVE Ascending(_)
Ascending(S) ==
    IF S = {} THEN << >>
    ELSE LET m == CHOOSE x \in S : \A y \in S \ {x} : StrLess(x, y)
         IN  <<m>> \o Ascending(S \ {m})

\* the orders in which a range over a map with key set S can visit the
\* keys: every order
Orders(S) ==
    { o \in [1..Cardinality(S) -> S] : \A i, j \in 1..Cardinality(S) : o[i] = o[j] => i = j }

emptyPlan == [Actions |-> << >>, Adds |-> 0, Updates |-> 0, Deletes |-> 0]

createSyncPlan(sourceFiles, targetFiles, calculateChecksum, sourceOrder, targetOrder) ==
    LET ls0 == [plan |-> emptyPlan, processedTargetFiles |-> {}, calls |-> << >>]
        ls1 == rangeSource(ls0, sourceOrder, sourceFiles, targetFiles, calculateChecksum)
        ls2 == rangeTarget(ls1, targetOrder, targetFiles)
    IN  [plan  |-> [ls2.plan EXCEPT !.Actions = SliceStable(@)],
         err   |-> "nil",
         calls |-> ls2.calls]

AbsPaths(paths) == { AbsPath(root, rel) : root \in {"source", "target"}, rel \in paths }

\* ------------------------------------------------------------------------
\* File trees and the file-system calls of the executor
\* ------------------------------------------------------------------------
NoNode == [kind |-> "none", content |-> 0, mtime |-> 0]

DirNode == [kind |-> "dir", content |-> 0, mtime |-> 0]

FileNode(content, mtime) == [kind |-> "file", content |-> content, mtime |-> mtime]

\* the size in bytes of a file with the given content
SizeOf(content) == (content + 1) \div 2

\* the time of a write made during the run: later than every time of the
\* trees
tNow == MaxTick + 1

\* why the path to p cannot be walked: a file or a hole on the way
WalkErr(t, p) ==
    IF \E q \in Ancestors(p) : t[q].kind = "file" THEN "ENOTDIR"
    ELSE IF \E q \in Ancestors(p) : t[q].kind = "none" THEN "ENOENT"
    ELSE "nil"

FsResult(t, e) == [tree |-> t, err |-> e]

\* os.Lstat
Lstat(t, p) ==
    IF WalkErr(t, p) # "nil" THEN WalkErr(t, p)
    ELSE IF t[p].kind = "none" THEN "ENOENT"
    ELSE "nil"

\* a MkdirAll that creates nothing
MkdirAllNothing(t, p) == FsResult(t, "nil")

\* os.MkdirAll, run with nothing else in between
MkdirAll(t, p) ==
    LET chain == Ancestors(p) \cup {p}
    IN  IF \E q \in chain : t[q].kind = "file" THEN FsResult(t, "ENOTDIR")
        ELSE FsResult([ q \in DOMAIN t |->
                          IF q \in chain /\ t[q].kind = "none" THEN DirNode ELSE t[q] ], "nil")

\* os.Mkdir
Mkdir(t, p) ==
    IF WalkErr(t, p) # "nil" THEN FsResult(t, WalkErr(t, p))
    ELSE IF t[p].kind # "none" THEN FsResult(t, "EEXIST")
    ELSE FsResult([t EXCEPT ![p] = DirNode], "nil")

\* os.IsExist
IsExist(e) == e = "EEXIST"

\* what os.Stat finds at p: the kind of the node, or the error
statOf(t, p) == IF Lstat(t, p) # "nil" THEN Lstat(t, p) ELSE t[p].kind

\* unlink(2), and unlinkat(2) without flags
Unlink(t, p) ==
    IF Lstat(t, p) # "nil" THEN FsResult(t, Lstat(t, p))
    ELSE IF t[p].kind = "dir" THEN FsResult(t, "EISDIR")
    ELSE FsResult([t EXCEPT ![p] = NoNode], "nil")

\* rmdir(2), and unlinkat(2) with AT_REMOVEDIR
Rmdir(t, p) ==
    IF Lstat(t, p) # "nil" THEN FsResult(t, Lstat(t, p))
    ELSE IF t[p].kind = "file" THEN FsResult(t, "ENOTDIR")
    ELSE IF \E q \in DOMAIN t : IsAncestor(p, q) /\ t[q].kind # "none"
      THEN FsResult(t, "ENOTEMPTY")
    ELSE FsResult([t EXCEPT ![p] = NoNode], "nil")

\* the error os.Remove returns when unlink failed with e and rmdir with e1
removeErr(e, e1) == IF e1 # "ENOTDIR" THEN e1 ELSE e

\* os.Remove, run with nothing else in between: unlink, and rmdir when
\* unlink failed
Remove(t, p) ==
    LET u == Unlink(t, p)
        d == Rmdir(t, p)
    IN  IF u.err = "nil" THEN u
        ELSE IF d.err = "nil" THEN d
        ELSE FsResult(t, removeErr(u.err, d.err))

\* the names os.File.Readdirnames gives for the directory p
Readdirnames(t, p) ==
    Ascending({ q \in DOMAIN t : q # p /\ Dir(q) = p /\ t[q].kind # "none" })

\* os.RemoveAll, run with nothing else in between
RemoveAll(t, p) ==
    IF WalkErr(t, p) = "ENOTDIR" THEN FsResult(t, "ENOTDIR")
    ELSE FsResult([ q \in DOMAIN t |-> IF q = p \/ IsAncestor(p, q) THEN NoNode ELSE t[q] ], "nil")

\* copyFile, its first two calls: os.Open(src) and os.OpenFile(dst,
\* O_RDWR|O_CREATE|O_TRUNC).  os.Open succeeds on a directory; the second
\* call leaves an empty file written now
openBoth(src, srcPath, t, dst) ==
    IF Lstat(src, srcPath) # "nil" THEN FsResult(t, Lstat(src, srcPath))
    ELSE IF WalkErr(t, dst) # "nil" THEN FsResult(t, WalkErr(t, dst))
    ELSE IF t[dst].kind = "dir" THEN FsResult(t, "EISDIR")
    ELSE FsResult([t EXCEPT ![dst] = FileNode(0, tNow)], "nil")

\* sourceFile.Read, the first of io.CopyBuffer: the read of a directory
\* fails, that of an empty file is at the end at once, and every other file
\* of the trees is shorter than the buffer of 32 KB and comes in one piece
readChunk(src, srcPath) ==
    IF src[srcPath].kind = "dir" THEN "EISDIR"
    ELSE IF SizeOf(src[srcPath].content) = 0 THEN "EOF"
    ELSE "data"

\* destFile.Write of the piece read: it goes to the file that was opened,
\* which is in the tree as long as nothing removed it
writeChunk(src, srcPath, t, dst) ==
    IF Lstat(t, dst) = "nil" /\ t[dst].kind = "file"
      THEN [t EXCEPT ![dst] = FileNode(src[srcPath].content, tNow)]
      ELSE t

\* os.Chtimes(dst, modTime, modTime), whose error is logged and dropped
Chtimes(t, dst, modTime) ==
    IF Lstat(t, dst) = "nil" /\ t[dst].kind = "file"
      THEN [t EXCEPT ![dst].mtime = modTime]
      ELSE t

\* copyFile from the open destination to its return, run with nothing else
\* in between: the copy, destFile.Sync() and os.Chtimes
copyRest(src, srcPath, t, dst, modTime) ==
    LET c == readChunk(src, srcPath)
    IN  IF c = "EISDIR" THEN FsResult(t, "EISDIR")
        ELSE IF c = "EOF" THEN FsResult(Chtimes(t, dst, modTime), "nil")
        ELSE FsResult(Chtimes(writeChunk(src, srcPath, t, dst), dst, modTime), "nil")

\* ------------------------------------------------------------------------
\* pkg/syncer/scanner.go, as far as Syncer.Run depends on it: the mapping of
\* a tree whose nodes are all readable, scanned without ignore rules
\* ------------------------------------------------------------------------
scanDirectory(root, t) ==
    [ p \in { q \in DOMAIN t : q # Root /\ t[q].kind # "none" /\ WalkErr(t, q) = "nil" } |->
        New(root, p, IF t[p].kind = "dir" THEN 0 ELSE SizeOf(t[p].content),
            t[p].mtime, t[p].kind = "dir") ]

\* calculateSHA256 over the two trees: os.Open fails on a path that cannot
\* be walked or is not there, and the read of a directory fails
treeDigests(src, tgt) ==
    [ a \in AbsPaths(DOMAIN src \ {Root}) |->
        LET t == IF a.root = "source" THEN src ELSE tgt
        IN  IF Lstat(t, a.rel) # "nil" THEN ChecksumErr(Lstat(t, a.rel))
            ELSE IF t[a.rel].kind = "file"
              THEN ChecksumOk(calculateSHA256Internal(t[a.rel].content))
              ELSE ChecksumErr("EISDIR") ]

\* ------------------------------------------------------------------------
\* pkg/syncer/executor.go
\* ------------------------------------------------------------------------
maxConcurrentOps == 10

\* a semaphore that never blocks
canAcquireAlways(sem) == TRUE

\* sem <- struct{}{} can proceed
canAcquire(sem) == sem < maxConcurrentOps

\* the result of one step of an action's goroutine: the target tree, the
\* value of execErr, and where the goroutine goes on: at the second call of
\* its switch ("mid"), inside copyFile with the destination open
\* ("created"), or at the end of the switch ("end")
StepResult(t, e, more) == [tree |-> t, err |-> e, more |-> more, call |-> nil]

\* the result of a system call made inside os.MkdirAll, os.Remove or
\* os.RemoveAll: the goroutine is still inside the function, at the
\* position where it called it, and call says how far it is there, or the
\* function has returned and call is nil
CallResult(t, e, more, call) == [tree |-> t, err |-> e, more |-> more, call |-> call]

\* copyFile up to the open destination
copyOpen(src, t, act) ==
    LET r == openBoth(src, act.SourceInfo.AbsPath.rel, t, act.RelPath)
    IN  StepResult(r.tree, r.err, IF r.err = "nil" THEN "created" ELSE "end")

\* a first call that copies for every Update, a directory included
firstCallNoDirCheck(src, t, act) ==
    IF act.Type = Add
      THEN LET r == MkdirAll(t, Dir(act.RelPath))
           IN  StepResult(r.tree, r.err, IF r.err = "nil" THEN "mid" ELSE "end")
    ELSE IF act.Type = Update
      THEN copyOpen(src, t, act)
    ELSE IF act.Type = Delete
      THEN LET statErr == Lstat(t, act.RelPath)
           IN  IF statErr = "nil" THEN StepResult(t, "nil", "mid")
               ELSE IF ~IsNotExist(statErr) THEN StepResult(t, statErr, "end")
               ELSE StepResult(t, "nil", "end")
    ELSE StepResult(t, "nil", "end")

\* first file-system call of the switch, run with nothing else in
\* between; for the Update of a file the two opening calls of copyFile
firstCall(src, t, act) ==
    IF act.Type = Add
      THEN LET r == MkdirAll(t, Dir(act.RelPath))
           IN  StepResult(r.tree, r.err, IF r.err = "nil" THEN "mid" ELSE "end")
    ELSE IF act.Type = Update
      THEN IF act.SourceInfo.IsDir THEN StepResult(t, "nil", "end")
           ELSE copyOpen(src, t, act)
    ELSE IF act.Type = Delete
      THEN LET statErr == Lstat(t, act.RelPath)
           IN  IF statErr = "nil" THEN StepResult(t, "nil", "mid")
               ELSE IF ~IsNotExist(statErr) THEN StepResult(t, statErr, "end")
               ELSE StepResult(t, "nil", "end")
    ELSE StepResult(t, "nil", "end")

\* second file-system call of the switch, run with nothing else in
\* between; for the Add of a file the two opening calls of copyFile
secondCall(src, t, act) ==
    IF act.Type = Add
      THEN IF act.SourceInfo.IsDir
             THEN LET r == Mkdir(t, act.RelPath)
                  IN  StepResult(r.tree, IF IsExist(r.err) THEN "nil" ELSE r.err, "end")
             ELSE copyOpen(src, t, act)
    ELSE \* Delete
      IF act.TargetInfo # nil /\ act.TargetInfo.IsDir
        THEN LET r == RemoveAll(t, act.RelPath) IN StepResult(r.tree, r.err, "end")
        ELSE LET r == Remove(t, act.RelPath) IN StepResult(r.tree, r.err, "end")

\* os.MkdirAll(dir): the directory after p on the way down to dir
below(p, dir) == CHOOSE q \in Ancestors(dir) \cup {dir} : q # p /\ Dir(q) = p

\* os.MkdirAll(dir): the directory p is there.  The call that recursed for
\* it goes on with os.Mkdir of the directory below; the outermost call
\* returns nil
made(t, p, dir) ==
    IF p = dir THEN CallResult(t, "nil", "mid", nil)
    ELSE CallResult(t, "nil", "started",
                    [op |-> "mkdir", path |-> below(p, dir), err |-> "nil", dir |-> dir])

\* os.MkdirAll(dir, 0755), one system call of it.  The function calls
\* os.Stat on its path; when that fails it calls itself on the directory
\* above, then os.Mkdir on its path and, when that fails, os.Lstat to see
\* whether somebody else made the directory.  The directory above the target
\* root is there, which the call for it finds without a change of the trees.
mkdirAllCall(t, c) ==
    IF c.op = "stat"
      THEN IF statOf(t, c.path) = "dir" THEN made(t, c.path, c.dir)
           ELSE IF statOf(t, c.path) = "file" THEN CallResult(t, "ENOTDIR", "end", nil)
           ELSE IF c.path = Root THEN CallResult(t, "nil", "started", [c EXCEPT !.op = "mkdir"])
           ELSE CallResult(t, "nil", "started", [c EXCEPT !.path = Dir(c.path)])
    ELSE IF c.op = "mkdir"
      THEN LET r == Mkdir(t, c.path)
           IN  IF r.err = "nil" THEN made(r.tree, c.path, c.dir)
               ELSE CallResult(t, "nil", "started", [c EXCEPT !.op = "lstat", !.err = r.err])
    ELSE \* lstat
      IF statOf(t, c.path) = "dir" THEN made(t, c.path, c.dir)
      ELSE CallResult(t, c.err, "end", nil)

\* the first system call of the switch: for an Add the os.Stat of
\* os.MkdirAll(parentDir, 0755)
firstStep(src, t, act) ==
    IF act.Type = Add
      THEN mkdirAllCall(t, [op |-> "stat", path |-> Dir(act.RelPath), err |-> "nil",
                            dir |-> Dir(act.RelPath)])
      ELSE firstCall(src, t, act)

\* removeAllFrom(parent, base) for one directory: its path, the names it
\* has yet to remove, and its recurseErr
Frame(p) == [path |-> p, names |-> << >>, rerr |-> "nil"]

\* act.TargetInfo != nil && act.TargetInfo.IsDir: os.RemoveAll, not os.Remove
removesAll(act) == act.TargetInfo # nil /\ act.TargetInfo.IsDir

\* removeAllFrom in its loop over the names of a directory: it calls itself
\* for the next name or, after the last, removes the directory
nextName(t, c, stack) ==
    LET f == stack[Len(stack)]
    IN  IF f.names = << >>
          THEN CallResult(t, "nil", "mid",
                          [c EXCEPT !.op = "rmdirat", !.err = "nil", !.stack = stack])
          ELSE CallResult(t, "nil", "mid",
                          [c EXCEPT !.op = "unlinkat", !.err = "nil",
                                    !.stack = Append([stack EXCEPT ![Len(stack)].names = Tail(@)],
                                                     Frame(Head(f.names)))])

\* removeAllFrom returns e: to os.RemoveAll, which returns it, or to the
\* loop of the call for the directory above, which keeps the first error
returnFrom(t, c, e) ==
    IF Len(c.stack) = 1 THEN CallResult(t, e, "end", nil)
    ELSE LET n == Len(c.stack) - 1
         IN  nextName(t, c, [SubSeq(c.stack, 1, n) EXCEPT ![n].rerr = IF @ = "nil" THEN e ELSE @])

\* os.Remove(targetPath) and os.RemoveAll(targetPath), one system call of
\* them after the first unlink.  os.Remove is over with its rmdir.
\* os.RemoveAll opens the directory above and calls removeAllFrom, which,
\* for a directory, looks at it, opens it, reads its names, calls itself
\* for each and removes it.  The calls name a node by the directory that
\* was opened; within the plans of the model no directory that a goroutine
\* has opened is removed and made again, so that the path names the same
\* node.
removeCall(t, all, c) ==
    LET top == c.stack[Len(c.stack)]
        q   == top.path
    IN  IF c.op = "rmdir"
          THEN LET d == Rmdir(t, q)
               IN  IF d.err = "nil" THEN CallResult(d.tree, "nil", "end", nil)
                   ELSE IF ~all THEN CallResult(t, removeErr(c.err, d.err), "end", nil)
                   ELSE IF IsNotExist(removeErr(c.err, d.err)) THEN CallResult(t, "nil", "end", nil)
                   ELSE CallResult(t, "nil", "mid", [c EXCEPT !.op = "open", !.err = "nil"])
        ELSE IF c.op = "open"
          THEN IF Lstat(t, Dir(q)) = "nil"
                 THEN CallResult(t, "nil", "mid", [c EXCEPT !.op = "unlinkat"])
               ELSE IF IsNotExist(Lstat(t, Dir(q))) THEN CallResult(t, "nil", "end", nil)
               ELSE CallResult(t, Lstat(t, Dir(q)), "end", nil)
        ELSE IF c.op = "unlinkat"
          THEN LET u == Unlink(t, q)
               IN  IF u.err = "nil" THEN returnFrom(u.tree, c, "nil")
                   ELSE IF IsNotExist(u.err) THEN returnFrom(t, c, "nil")
                   ELSE IF u.err = "EISDIR"
                     THEN CallResult(t, "nil", "mid", [c EXCEPT !.op = "fstatat", !.err = u.err])
                   ELSE returnFrom(t, c, u.err)
        ELSE IF c.op = "fstatat"
          THEN IF statOf(t, q) = "dir"
                 THEN CallResult(t, "nil", "mid", [c EXCEPT !.op = "openat", !.err = "nil"])
               ELSE IF statOf(t, q) = "file" THEN returnFrom(t, c, c.err)
               ELSE IF IsNotExist(statOf(t, q)) THEN returnFrom(t, c, "nil")
               ELSE returnFrom(t, c, statOf(t, q))
        ELSE IF c.op = "openat"
          THEN IF statOf(t, q) = "dir"
                 THEN CallResult(t, "nil", "mid", [c EXCEPT !.op = "readdir"])
               ELSE IF IsNotExist(statOf(t, q)) THEN returnFrom(t, c, "nil")
               ELSE CallResult(t, "nil", "mid",
                               [c EXCEPT !.op = "rmdirat",
                                         !.stack[Len(c.stack)].rerr =
                                             IF statOf(t, q) = "file" THEN "ENOTDIR" ELSE statOf(t, q)])
        ELSE IF c.op = "readdir"
          THEN IF statOf(t, q) = "dir"
                 THEN nextName(t, c, [c.stack EXCEPT ![Len(c.stack)].names = Readdirnames(t, q)])
                 ELSE returnFrom(t, c, "nil")
        ELSE \* rmdirat
          LET d == Rmdir(t, q)
          IN  IF d.err = "nil" THEN returnFrom(d.tree, c, "nil")
              ELSE IF IsNotExist(d.err) THEN returnFrom(t, c, "nil")
              ELSE returnFrom(t, c, IF top.rerr # "nil" THEN top.rerr ELSE d.err)

\* the system call of the switch after the first: for a Delete the unlink
\* that os.Remove makes first, be it called by os.RemoveAll or not
secondStep(src, t, act) ==
    IF act.Type = Delete
      THEN LET u == Unlink(t, act.RelPath)
           IN  IF u.err = "nil" THEN CallResult(u.tree, "nil", "end", nil)
               ELSE CallResult(t, "nil", "mid",
                               [op |-> "rmdir", err |-> u.err, stack |-> <<Frame(act.RelPath)>>])
      ELSE secondCall(src, t, act)

\* an error that is dropped instead of sent
sendErrNever(errChan, i, execErr) == errChan

\* errChan <- execErr, when execErr is not nil
sendErr(errChan, i, execErr) ==
    IF execErr # "nil" THEN Append(errChan, [action |-> i, err |-> execErr]) ELSE errChan

\* what is left of an action after a step, run with nothing else in between
restOf(src, r, act) ==
    IF r.more = "created"
      THEN LET c == copyRest(src, act.SourceInfo.AbsPath.rel, r.tree, act.RelPath,
                             act.SourceInfo.ModTime)
           IN  StepResult(c.tree, c.err, "end")
      ELSE r

\* the whole switch of one action, run with nothing else in between
wholeAction(src, t, act) ==
    LET r1 == firstCall(src, t, act)
    IN  IF r1.more = "mid" THEN restOf(src, secondCall(src, r1.tree, act), act)
        ELSE restOf(src, r1, act)

\* the actions of a plan run one after the other in plan order: the target
\* tree and the errors they leave
RECURSIVE inPlanOrder(_, _, _, _, _)
inPlanOrder(src, t, actions, i, errs) ==
    IF i > Len(actions) THEN [tree |-> t, errs |-> errs]
    ELSE LET r == wholeAction(src, t, actions[i])
         IN  inPlanOrder(src, r.tree, actions, i + 1,
                         IF r.err # "nil" THEN errs \cup {[action |-> i, err |-> r.err]} ELSE errs)

\* ------------------------------------------------------------------------
\* pkg/syncer/checksum.go: the number of worker goroutines
\* ------------------------------------------------------------------------
checksumWorkerCount == 4

\* ------------------------------------------------------------------------
\* State
\* ------------------------------------------------------------------------
VARIABLES
    pc,             \* position of Syncer.Run and of executePlan
    srcTree,        \* the source tree
    tgtTree,        \* the target tree
    tgt0,           \* the target tree as it was when it was scanned
    dryRun,         \* Syncer.DryRun
    scanned,        \* the scans that have returned
    sourceFiles,    \* Syncer.sourceFiles
    targetFiles,    \* Syncer.targetFiles
    digests,        \* what calculateSHA256 returns for each absolute path
    plan,           \* Syncer.plan
    checksumCalls,  \* the digest computations requested while planning
    response,       \* the line read from standard input
    next,           \* index of the next action the dispatch loop starts
    st,             \* position of each action's goroutine
    execErr,        \* execErr of each action's goroutine
    attempts,       \* how many goroutines have been started for each action
    sem,            \* number of slots taken in sem
    wg,             \* counter of the WaitGroup
    errChan,        \* contents of errChan
    errors,         \* the errors slice read from errChan
    execRet,        \* the error executePlan returns
    runErr,         \* the error Syncer.Run returns
    faults,         \* copies that failed because the source could not be opened
    copyMu,         \* whether copyMu, the mutex of the progress bar, is held
    inCall,         \* how far each goroutine is in os.MkdirAll, os.Remove or os.RemoveAll
    scanIn,         \* one call of scanDirectory: the tree and what fails in it
    todo,           \* the paths filepath.WalkDir has yet to visit, in order
    visited,        \* the paths the callback has been called on
    gor,            \* the goroutines the callback has started, by path
    results,        \* the results map of scanDirectory
    mu,             \* whether the mutex of scanDirectory is held
    scanWg,         \* counter of the WaitGroup of scanDirectory
    scanRet,        \* what scanDirectory returned
    args,           \* rootCmd.RunE: sourcePath, targetPath and what os.Stat finds
    cmdErr,         \* the error rootCmd.RunE returns before it starts the Syncer
    poolFiles,      \* the checksum pool: what is in the files the callers name
    checksumWorkersStarted,  \* the flag of the same name
    checksumJobChan,         \* the jobs buffered in the channel of the same name
    workers,        \* the worker goroutines: how many were started, and the jobs
                    \* those that are computing a digest have received
    callers,        \* the goroutines calling calculateSHA256: where each is
    resultChan,     \* the result channel each caller has made, by caller
    jobChanClosed,  \* whether close(checksumJobChan) was called on the channel
    chanGen,        \* how many job channels startChecksumWorkers has made
    stopper         \* where the goroutine calling stopChecksumWorkers is

planVars == <<sourceFiles, targetFiles, digests, plan, checksumCalls>>

treeVars == <<srcTree, tgtTree, tgt0, dryRun>>

execVars == <<response, next, st, execErr, attempts, sem, wg, errChan, errors, execRet, runErr,
              faults, copyMu, inCall>>

scanVars == <<scanIn, todo, visited, gor, results, mu, scanWg, scanRet>>

runVars == <<scanned, planVars, treeVars, execVars>>

cmdVars == <<args, cmdErr>>

lifeVars == <<jobChanClosed, chanGen, stopper>>

poolVars == <<poolFiles, checksumWorkersStarted, checksumJobChan,
              workers, callers, resultChan, lifeVars>>

vars == <<pc, scanned, planVars, treeVars, execVars, scanVars, cmdVars, poolVars>>

\* ------------------------------------------------------------------------
\* Inputs of the planner
\* ------------------------------------------------------------------------
EntryNone == [kind |-> "none", size |-> 0, mtime |-> 0]

EntryDir == [kind |-> "dir", size |-> 0, mtime |-> 0]

EntryFiles(sizes, mtimes) == { [kind |-> "file", size |-> sz, mtime |-> t] : sz \in sizes, t \in mtimes }

\* a directory listing is well formed when every entry below the root has
\* its parent directory in the listing
WellFormed(shape, paths) ==
    \A p \in paths : shape[p].kind # "none" =>
        \A q \in Ancestors(p) \ {Root} : shape[q].kind = "dir"

Listings(paths, files) ==
    { shape \in [paths -> {EntryNone, EntryDir} \cup files] : WellFormed(shape, paths) }

\* the mapping a scan of root returns for a listing
MappingOf(root, shape) ==
    [ p \in { q \in DOMAIN shape : shape[q].kind # "none" } |->
        New(root, p, shape[p].size, shape[p].mtime, shape[p].kind = "dir") ]

\* what a digest computation can return: the digest of one of the given
\* contents, or the read error e
ChecksumResults(contents, e) ==
    { ChecksumOk(calculateSHA256Internal(c)) : c \in contents } \cup { ChecksumErr(e) }

\* paths that are files in both mappings: the only ones a digest can be
\* asked for
FilePairs(src, tgt) ==
    { p \in DOMAIN src \cap DOMAIN tgt : ~src[p].IsDir /\ ~tgt[p].IsDir }

\* the digest functions of one planning run; the reads that fail in a run
\* all fail with the same error
DigestFunctions(src, tgt) ==
    LET asked == FilePairs(src, tgt)
        errs  == IF asked = {} THEN {"EIO"} ELSE {"ENOENT", "EIO"}
    IN  UNION { { [ a \in AbsPaths(SmallPaths) |->
                      IF a.rel \notin asked THEN ChecksumErr(e)
                      ELSE IF a.root = "source" THEN fs[a.rel] ELSE ft[a.rel] ] :
                    fs \in [asked -> ChecksumResults({1}, e)],
                    ft \in [asked -> ChecksumResults({1, 2}, e)] } : e \in errs }

\* the variables of the executor before executePlan is called
ExecIdle ==
    /\ response = << >>
    /\ next = 1
    /\ st = << >>
    /\ execErr = << >>
    /\ attempts = << >>
    /\ sem = 0
    /\ wg = 0
    /\ errChan = << >>
    /\ errors = << >>
    /\ execRet = "nil"
    /\ runErr = "nil"
    /\ faults = 0
    /\ copyMu = FALSE
    /\ inCall = << >>

\* the tree of a root that does not exist
emptyTree == [ q \in SmallPaths \cup {Root} |-> NoNode ]

\* stopChecksumWorkers is not followed
LifeIdle ==
    /\ jobChanClosed = FALSE
    /\ chanGen = 0
    /\ stopper = "none"

\* no call of calculateSHA256 is followed step by step
PoolIdle ==
    /\ poolFiles = << >>
    /\ checksumWorkersStarted = FALSE
    /\ checksumJobChan = << >>
    /\ workers = << >>
    /\ callers = << >>
    /\ resultChan = << >>
    /\ LifeIdle

\* rootCmd.RunE is not followed
CmdIdle == args = nil /\ cmdErr = "nil"

\* no call of scanDirectory is followed step by step
ScanIdle ==
    /\ scanIn = nil
    /\ todo = << >>
    /\ visited = {}
    /\ gor = << >>
    /\ results = << >>
    /\ mu = FALSE
    /\ scanWg = 0
    /\ scanRet = nil

InitPlan ==
    /\ pc = "plan"
    /\ scanned = {"source", "target"}
    /\ \E s \in Listings(SmallPaths, EntryFiles({1}, {1})),
          t \in Listings(SmallPaths, EntryFiles(1..MaxSize, ModTimes)) :
         /\ sourceFiles = MappingOf("source", s)
         /\ targetFiles = MappingOf("target", t)
    /\ digests \in DigestFunctions(sourceFiles, targetFiles)
    /\ plan = emptyPlan
    /\ checksumCalls = << >>
    /\ srcTree = emptyTree
    /\ tgtTree = emptyTree
    /\ tgt0 = emptyTree
    /\ dryRun = FALSE
    /\ ExecIdle
    /\ ScanIdle
    /\ CmdIdle
    /\ PoolIdle

\* Syncer.Run, step 3: s.plan, err = createSyncPlan(s.sourceFiles, s.targetFiles).
\* The first call of calculateSHA256 that NeedsUpdate makes starts the
\* checksum workers, which nothing stops.  The calls are made one after the
\* other and each has its result when it returns: createSyncPlan leaves the
\* job channel empty and every worker waiting on it.
CreatePlan ==
    /\ pc = "plan"
    /\ \E sourceOrder \in Orders(DOMAIN sourceFiles), targetOrder \in Orders(DOMAIN targetFiles) :
         LET r == createSyncPlan(sourceFiles, targetFiles, digests, sourceOrder, targetOrder)
         IN  /\ plan' = r.plan
             /\ checksumCalls' = r.calls
             /\ pc' = IF r.err # "nil" THEN "done" ELSE "planned"
             /\ runErr' = IF r.err # "nil" THEN "failed to create sync plan" ELSE runErr
             /\ IF Len(r.calls) > 0 /\ ~checksumWorkersStarted
                  THEN /\ checksumJobChan' = << >>
                       /\ checksumWorkersStarted' = TRUE
                       /\ workers' = [count |-> checksumWorkerCount, jobs |-> {}]
                       /\ chanGen' = chanGen + 1
                  ELSE UNCHANGED <<checksumWorkersStarted, checksumJobChan, workers, chanGen>>
    /\ UNCHANGED <<scanned, sourceFiles, targetFiles, digests, treeVars>>
    /\ UNCHANGED <<response, next, st, execErr, attempts, sem, wg, errChan, errors, execRet, faults, copyMu, inCall>>
    /\ UNCHANGED <<cmdVars, poolFiles, callers, resultChan, jobChanClosed, stopper>>
    /\ UNCHANGED scanVars

NextPlan == CreatePlan

SpecPlan == InitPlan /\ [][NextPlan]_vars

\* ------------------------------------------------------------------------
\* Syncer.Run on two trees
\* ------------------------------------------------------------------------
\* the trees over the given paths whose files are drawn from files; the
\* root is a directory
Trees(paths, files) ==
    { [ q \in paths \cup {Root} |-> IF q = Root THEN DirNode ELSE shape[q] ] :
        shape \in { sh \in [paths -> {NoNode, DirNode} \cup files] : WellFormed(sh, paths) } }

SourceFileNodes == { FileNode(1, 1) }

\* target files: one that is the source file, one of another size written
\* in the same second, and one written later whose content differs but
\* whose size does not
TargetFileNodes == { FileNode(1, 1), FileNode(MaxContent, 1), FileNode(2, MaxTick) }

\* the small target trees: a file at c is any of the target files, a file
\* at a or a/b is the source file
SmallTargets ==
    { t \in Trees(SmallPaths, TargetFileNodes) :
        \A p \in SmallPaths \ {pC} : t[p].kind = "file" => t[p] \in SourceFileNodes }

\* small trees of every shape; the target root may not exist yet, and
\* Syncer.Run does not look whether the source root exists
InitSmall ==
    /\ srcTree \in Trees(SmallPaths, SourceFileNodes) \cup {emptyTree}
    /\ tgtTree \in SmallTargets \cup {emptyTree}

\* trees whose plan is longer than the semaphore is wide: Wide files to
\* delete and a file to add, whose source may be such that it cannot be
\* opened
InitWide ==
    /\ srcTree = [ q \in Nodes |->
                     IF q = Root THEN DirNode
                     ELSE IF q = pC THEN FileNode(1, 1)
                     ELSE NoNode ]
    /\ tgt0 = [ q \in Nodes |->
                  IF q = Root THEN DirNode
                  ELSE IF q \in WidePaths THEN FileNode(1, 1)
                  ELSE NoNode ]

Init ==
    /\ pc = "scan"
    /\ scanned = {}
    /\ InitSmall
    /\ tgt0 = tgtTree
    /\ dryRun \in BOOLEAN
    /\ sourceFiles = << >>
    /\ targetFiles = << >>
    /\ digests = treeDigests(srcTree, tgtTree)
    /\ plan = emptyPlan
    /\ checksumCalls = << >>
    /\ ExecIdle
    /\ ScanIdle
    /\ CmdIdle
    /\ PoolIdle

\* Syncer.Run, step 2: the goroutine that scans the source
ScanSource ==
    /\ pc = "scan" /\ "source" \notin scanned
    /\ sourceFiles' = scanDirectory("source", srcTree)
    /\ scanned' = scanned \cup {"source"}
    /\ UNCHANGED <<pc, targetFiles, digests, plan, checksumCalls, treeVars, execVars>>
    /\ UNCHANGED <<cmdVars, poolVars>>
    /\ UNCHANGED scanVars

\* Syncer.Run, step 2: the goroutine that scans the target
ScanTarget ==
    /\ pc = "scan" /\ "target" \notin scanned
    /\ targetFiles' = scanDirectory("target", tgtTree)
    /\ scanned' = scanned \cup {"target"}
    /\ UNCHANGED <<pc, sourceFiles, digests, plan, checksumCalls, treeVars, execVars>>
    /\ UNCHANGED <<cmdVars, poolVars>>
    /\ UNCHANGED scanVars

\* Syncer.Run: wg.Wait() and the two error checks
ScanJoin ==
    /\ pc = "scan" /\ scanned = {"source", "target"}
    /\ pc' = "plan"
    /\ UNCHANGED <<scanned, planVars, treeVars, execVars>>
    /\ UNCHANGED <<cmdVars, poolVars>>
    /\ UNCHANGED scanVars

\* an executePlan that goes on to the prompt in a dry run
ShowPlanNoDryRun ==
    /\ pc = "planned"
    /\ pc' = IF Len(plan.Actions) = 0 THEN "done" ELSE "prompt"
    /\ UNCHANGED <<scanned, planVars, treeVars, execVars>>
    /\ UNCHANGED <<cmdVars, poolVars>>
    /\ UNCHANGED scanVars

\* executePlan up to the confirmation prompt: the empty plan and the dry
\* run return nil
ShowPlan ==
    /\ pc = "planned"
    /\ pc' = IF Len(plan.Actions) = 0 \/ dryRun THEN "done" ELSE "prompt"
    /\ UNCHANGED <<scanned, planVars, treeVars, execVars>>
    /\ UNCHANGED <<cmdVars, poolVars>>
    /\ UNCHANGED scanVars


\* strings.ToLower on ASCII
ToLower(str) == [ i \in 1..Len(str) |-> IF str[i] >= 65 /\ str[i] <= 90 THEN str[i] + 32 ELSE str[i] ]

IsSpace(ch) == ch \in {9, 10, 11, 12, 13, 32}

\* strings.TrimSpace
RECURSIVE TrimLeft(_)
TrimLeft(str) == IF str # << >> /\ IsSpace(Head(str)) THEN TrimLeft(Tail(str)) ELSE str

RECURSIVE TrimRight(_)
TrimRight(str) ==
    IF str # << >> /\ IsSpace(str[Len(str)]) THEN TrimRight(SubSeq(str, 1, Len(str) - 1)) ELSE str

TrimSpace(str) == TrimRight(TrimLeft(str))

\* the lines a user may type: "\n", "y\n", " YES \n", "n\n", "ye\n"
Responses ==
    { <<10>>, <<121, 10>>, <<32, 89, 69, 83, 32, 10>>, <<110, 10>>, <<121, 101, 10>> }

\* a test that takes every response for a yes
proceedsAlways(resp) == TRUE

\* response != "" && response != "y" && response != "yes", negated
proceeds(resp) ==
    LET r == TrimSpace(ToLower(resp))
    IN  ~(r # << >> /\ r # <<121>> /\ r # <<121, 101, 115>>)

\* executePlan: reader.ReadString('\n'), which may fail
ReadConfirmation ==
    /\ pc = "prompt"
    /\ \/ /\ response' \in Responses
          /\ pc' = "answered"
          /\ UNCHANGED <<execRet, runErr>>
       \/ /\ response' = << >>
          /\ pc' = "done"
          /\ execRet' = "failed to read confirmation"
          /\ runErr' = "failed to execute sync plan"
    /\ UNCHANGED <<scanned, planVars, treeVars>>
    /\ UNCHANGED <<next, st, execErr, attempts, sem, wg, errChan, errors, faults, copyMu, inCall>>
    /\ UNCHANGED <<cmdVars, poolVars>>
    /\ UNCHANGED scanVars

\* executePlan: the test of the response; on an affirmative one the
\* semaphore, the error channel and the WaitGroup are set up
Decide ==
    /\ pc = "answered"
    /\ IF proceeds(response)
         THEN /\ pc' = "exec"
              /\ st' = [ i \in 1..Len(plan.Actions) |-> "idle" ]
              /\ execErr' = [ i \in 1..Len(plan.Actions) |-> "nil" ]
              /\ attempts' = [ i \in 1..Len(plan.Actions) |-> 0 ]
              /\ inCall' = [ i \in 1..Len(plan.Actions) |-> nil ]
         ELSE /\ pc' = "done"
              /\ UNCHANGED <<st, execErr, attempts, inCall>>
    /\ response' = << >>
    /\ UNCHANGED <<scanned, planVars, treeVars>>
    /\ UNCHANGED <<next, sem, wg, errChan, errors, execRet, runErr, faults, copyMu>>
    /\ UNCHANGED <<cmdVars, poolVars>>
    /\ UNCHANGED scanVars

\* the positions of a goroutine inside copyFile after the destination was
\* opened: before the read, in progressWriter.Write before pw.mu.Lock(),
\* with the mutex held, before destFile.Write, and before os.Chtimes
Copying == {"created", "read", "locked", "unlocked", "written"}

\* the goroutines that are in the switch of their action or at the send on
\* errChan
Running ==
    { i \in DOMAIN st : st[i] \in {"started", "mid", "sending"} \cup Copying }

\* the dispatch loop has called wg.Add(1) for an action and waits for a slot
Waiting == { i \in DOMAIN st : st[i] = "waiting" }

\* the dispatch loop: wg.Add(1)
AddOne ==
    /\ pc = "exec"
    /\ next <= Len(plan.Actions)
    /\ st[next] = "idle"
    /\ wg' = wg + 1
    /\ st' = [st EXCEPT ![next] = "waiting"]
    /\ UNCHANGED <<pc, scanned, planVars, treeVars>>
    /\ UNCHANGED <<response, next, execErr, attempts, sem, errChan, errors, execRet, runErr, faults, copyMu, inCall>>
    /\ UNCHANGED <<cmdVars, poolVars>>
    /\ UNCHANGED scanVars

\* the dispatch loop: sem <- struct{}{}, go func(act)
Dispatch ==
    /\ pc = "exec"
    /\ next <= Len(plan.Actions)
    /\ st[next] = "waiting"
    /\ canAcquire(sem)
    /\ sem' = sem + 1
    /\ st' = [st EXCEPT ![next] = "started"]
    /\ attempts' = [attempts EXCEPT ![next] = @ + 1]
    /\ next' = next + 1
    /\ UNCHANGED <<pc, scanned, planVars, treeVars>>
    /\ UNCHANGED <<response, execErr, wg, errChan, errors, execRet, runErr, faults, copyMu, inCall>>
    /\ UNCHANGED <<cmdVars, poolVars>>
    /\ UNCHANGED scanVars

\* the end of the switch: execErr is set, and the goroutine goes on to the
\* send when it is not nil and to its deferred functions when it is
Leave(i, e) ==
    /\ execErr' = [execErr EXCEPT ![i] = e]
    /\ st' = [st EXCEPT ![i] = IF e # "nil" THEN "sending" ELSE "deferred"]

\* the copies whose os.Open of the source may be refused: those of the
\* files of the small trees
mayFail(act) == ~act.SourceInfo.IsDir /\ act.RelPath \in SmallPaths

\* where a step of the switch leaves the goroutine
After(i, r) ==
    /\ IF r.more = "end"
         THEN Leave(i, r.err)
         ELSE /\ st' = [st EXCEPT ![i] = r.more]
              /\ UNCHANGED execErr
    /\ inCall' = [inCall EXCEPT ![i] = r.call]

\* a goroutine makes the first file-system call of its action: os.Lstat
\* for a Delete, the opening calls of copyFile for an Update, and for an Add
\* the first system call of os.MkdirAll.  A copy may also fail before it
\* touches the target, when the source cannot be opened
FirstCall(i) ==
    /\ pc = "exec"
    /\ i \in DOMAIN st /\ st[i] = "started" /\ inCall[i] = nil
    /\ \/ LET r == firstStep(srcTree, tgtTree, plan.Actions[i])
          IN  /\ tgtTree' = r.tree
              /\ After(i, r)
              /\ UNCHANGED faults
       \/ /\ faults < MaxFaults
          /\ plan.Actions[i].Type = Update /\ mayFail(plan.Actions[i])
          /\ faults' = faults + 1
          /\ Leave(i, "EACCES")
          /\ UNCHANGED <<tgtTree, inCall>>
    /\ UNCHANGED <<pc, scanned, planVars, srcTree, tgt0, dryRun>>
    /\ UNCHANGED <<response, next, attempts, sem, wg, errChan, errors, execRet, runErr, copyMu>>
    /\ UNCHANGED <<scanVars, cmdVars, poolVars>>

\* a goroutine inside os.MkdirAll makes the next system call of it
Making(i) ==
    /\ pc = "exec"
    /\ i \in DOMAIN st /\ st[i] = "started" /\ inCall[i] # nil
    /\ LET r == mkdirAllCall(tgtTree, inCall[i])
       IN  /\ tgtTree' = r.tree
           /\ After(i, r)
    /\ UNCHANGED <<pc, scanned, planVars, srcTree, tgt0, dryRun>>
    /\ UNCHANGED <<response, next, attempts, sem, wg, errChan, errors, execRet, runErr, faults, copyMu>>
    /\ UNCHANGED <<scanVars, cmdVars, poolVars>>

\* a goroutine makes the file-system call after the first of its action:
\* os.Mkdir or the opening calls of copyFile for an Add, and for a Delete the
\* first system call of os.Remove or os.RemoveAll
SecondCall(i) ==
    /\ pc = "exec"
    /\ i \in DOMAIN st /\ st[i] = "mid" /\ inCall[i] = nil
    /\ \/ LET r == secondStep(srcTree, tgtTree, plan.Actions[i])
          IN  /\ tgtTree' = r.tree
              /\ After(i, r)
              /\ UNCHANGED faults
       \/ /\ faults < MaxFaults
          /\ plan.Actions[i].Type = Add /\ mayFail(plan.Actions[i])
          /\ faults' = faults + 1
          /\ Leave(i, "EACCES")
          /\ UNCHANGED <<tgtTree, inCall>>
    /\ UNCHANGED <<pc, scanned, planVars, srcTree, tgt0, dryRun>>
    /\ UNCHANGED <<response, next, attempts, sem, wg, errChan, errors, execRet, runErr, copyMu>>
    /\ UNCHANGED <<scanVars, cmdVars, poolVars>>

\* a goroutine inside os.Remove or os.RemoveAll makes the next system call
\* of it
Removing(i) ==
    /\ pc = "exec"
    /\ i \in DOMAIN st /\ st[i] = "mid" /\ inCall[i] # nil
    /\ LET r == removeCall(tgtTree, removesAll(plan.Actions[i]), inCall[i])
       IN  /\ tgtTree' = r.tree
           /\ After(i, r)
    /\ UNCHANGED <<pc, scanned, planVars, srcTree, tgt0, dryRun>>
    /\ UNCHANGED <<response, next, attempts, sem, wg, errChan, errors, execRet, runErr, faults, copyMu>>
    /\ UNCHANGED <<scanVars, cmdVars, poolVars>>

\* copyFile, io.CopyBuffer: the read of the source.  The read of a
\* directory fails and copyFile returns; at the end of the source the copy
\* is over; a piece that was read goes to progressWriter.Write first
Read(i) ==
    /\ pc = "exec"
    /\ i \in DOMAIN st /\ st[i] = "created"
    /\ LET c == readChunk(srcTree, plan.Actions[i].SourceInfo.AbsPath.rel)
       IN  IF c = "EISDIR" THEN Leave(i, "EISDIR")
           ELSE /\ st' = [st EXCEPT ![i] = IF c = "EOF" THEN "written" ELSE "read"]
                /\ UNCHANGED execErr
    /\ UNCHANGED <<pc, scanned, planVars, treeVars>>
    /\ UNCHANGED <<response, next, attempts, sem, wg, errChan, errors, execRet, runErr, faults, copyMu, inCall>>
    /\ UNCHANGED <<scanVars, cmdVars, poolVars>>

\* pw.mu.Lock() can proceed
copyMuFree(held) == ~held

\* progressWriter.Write: pw.mu.Lock(), which waits while another copy holds
\* the mutex
PwLock(i) ==
    /\ pc = "exec"
    /\ i \in DOMAIN st /\ st[i] = "read"
    /\ copyMuFree(copyMu)
    /\ copyMu' = TRUE
    /\ st' = [st EXCEPT ![i] = "locked"]
    /\ UNCHANGED <<pc, scanned, planVars, treeVars>>
    /\ UNCHANGED <<response, next, execErr, attempts, sem, wg, errChan, errors, execRet, runErr, faults, inCall>>
    /\ UNCHANGED <<scanVars, cmdVars, poolVars>>

\* progressWriter.Write: pw.bar.Add(n) and pw.mu.Unlock()
PwUnlock(i) ==
    /\ pc = "exec"
    /\ i \in DOMAIN st /\ st[i] = "locked"
    /\ copyMu' = FALSE
    /\ st' = [st EXCEPT ![i] = "unlocked"]
    /\ UNCHANGED <<pc, scanned, planVars, treeVars>>
    /\ UNCHANGED <<response, next, execErr, attempts, sem, wg, errChan, errors, execRet, runErr, faults, inCall>>
    /\ UNCHANGED <<scanVars, cmdVars, poolVars>>

\* io.CopyBuffer: destFile.Write of the piece, and the read that finds the
\* end of the source
Write(i) ==
    /\ pc = "exec"
    /\ i \in DOMAIN st /\ st[i] = "unlocked"
    /\ tgtTree' = writeChunk(srcTree, plan.Actions[i].SourceInfo.AbsPath.rel,
                             tgtTree, plan.Actions[i].RelPath)
    /\ st' = [st EXCEPT ![i] = "written"]
    /\ UNCHANGED <<pc, scanned, planVars, srcTree, tgt0, dryRun>>
    /\ UNCHANGED <<response, next, execErr, attempts, sem, wg, errChan, errors, execRet, runErr, faults, copyMu, inCall>>
    /\ UNCHANGED <<scanVars, cmdVars, poolVars>>

\* copyFile: destFile.Sync(), os.Chtimes(dst, modTime, modTime) and the
\* return of nil
SetTime(i) ==
    /\ pc = "exec"
    /\ i \in DOMAIN st /\ st[i] = "written"
    /\ tgtTree' = Chtimes(tgtTree, plan.Actions[i].RelPath, plan.Actions[i].SourceInfo.ModTime)
    /\ Leave(i, "nil")
    /\ UNCHANGED <<pc, scanned, planVars, srcTree, tgt0, dryRun>>
    /\ UNCHANGED <<response, next, attempts, sem, wg, errChan, errors, execRet, runErr, faults, copyMu, inCall>>
    /\ UNCHANGED <<scanVars, cmdVars, poolVars>>

\* make(chan error, len(plan.Actions))
errChanCap == Len(plan.Actions)

\* errChan <- execErr, which waits while the channel is full
Send(i) ==
    /\ pc = "exec"
    /\ i \in DOMAIN st /\ st[i] = "sending"
    /\ Len(errChan) < errChanCap
    /\ errChan' = sendErr(errChan, i, execErr[i])
    /\ st' = [st EXCEPT ![i] = "deferred"]
    /\ UNCHANGED <<pc, scanned, planVars, treeVars>>
    /\ UNCHANGED <<response, next, execErr, attempts, sem, wg, errors, execRet, runErr, faults, copyMu, inCall>>
    /\ UNCHANGED <<cmdVars, poolVars>>
    /\ UNCHANGED scanVars

\* a slot is never given back
slotHeldNever == FALSE

\* some goroutine whose function has returned has yet to run its deferred
\* func() { <-sem }(): the slots taken are those of the goroutines still
\* in their function and of these
slotHeld == sem > Cardinality(Running)

\* some goroutine has run its deferred <-sem and has yet to run its
\* deferred wg.Done(): the WaitGroup counts the action the loop waits for a
\* slot for, the goroutines that hold a slot, and these
doneDue == wg - Cardinality(Waiting) > sem

\* the deferred func() { <-sem }() of a goroutine whose function has
\* returned.  Such goroutines differ in nothing, and the step does not say
\* which of them takes it.
Release ==
    /\ pc = "exec"
    /\ slotHeld
    /\ sem' = sem - 1
    /\ UNCHANGED <<pc, scanned, planVars, treeVars>>
    /\ UNCHANGED <<response, next, st, execErr, attempts, wg, errChan, errors, execRet, runErr, faults, copyMu, inCall>>
    /\ UNCHANGED <<cmdVars, poolVars>>
    /\ UNCHANGED scanVars

\* the deferred wg.Done() of a goroutine that has given its slot back
Done ==
    /\ pc = "exec"
    /\ doneDue
    /\ wg' = wg - 1
    /\ UNCHANGED <<pc, scanned, planVars, treeVars>>
    /\ UNCHANGED <<response, next, st, execErr, attempts, sem, errChan, errors, execRet, runErr, faults, copyMu, inCall>>
    /\ UNCHANGED <<cmdVars, poolVars>>
    /\ UNCHANGED scanVars

\* executePlan: wg.Wait(), close(errChan), the loop over errChan and the
\* return; Syncer.Run wraps the error
Collect ==
    /\ pc = "exec"
    /\ next > Len(plan.Actions)
    /\ wg = 0
    /\ errors' = errChan
    /\ errChan' = << >>
    /\ execRet' = IF Len(errChan) > 0 THEN "synchronization finished with errors" ELSE "nil"
    /\ runErr' = IF Len(errChan) > 0 THEN "failed to execute sync plan" ELSE "nil"
    /\ pc' = "done"
    /\ UNCHANGED <<scanned, planVars, treeVars>>
    /\ UNCHANGED <<response, next, st, execErr, attempts, sem, wg, faults, copyMu, inCall>>
    /\ UNCHANGED <<cmdVars, poolVars>>
    /\ UNCHANGED scanVars

Next ==
    \/ ScanSource
    \/ ScanTarget
    \/ ScanJoin
    \/ CreatePlan
    \/ ShowPlan
    \/ ReadConfirmation
    \/ Decide
    \/ AddOne
    \/ Dispatch
    \/ \E i \in 1..Len(plan.Actions) : FirstCall(i)
    \/ \E i \in 1..Len(plan.Actions) : Making(i)
    \/ \E i \in 1..Len(plan.Actions) : SecondCall(i)
    \/ \E i \in 1..Len(plan.Actions) : Removing(i)
    \/ \E i \in 1..Len(plan.Actions) : Read(i)
    \/ \E i \in 1..Len(plan.Actions) : PwLock(i)
    \/ \E i \in 1..Len(plan.Actions) : PwUnlock(i)
    \/ \E i \in 1..Len(plan.Actions) : Write(i)
    \/ \E i \in 1..Len(plan.Actions) : SetTime(i)
    \/ \E i \in 1..Len(plan.Actions) : Send(i)
    \/ Release
    \/ Done
    \/ Collect

Spec == Init /\ [][Next]_vars

\* executePlan on the plan of the wide trees, from its first statement.  The
\* plan is the one createSyncPlan returns when both maps are visited in
\* ascending order of their keys.  The files to delete were in the target
\* when it was scanned and have been removed by someone else since, the case
\* the Delete of executePlan tests for with os.Lstat: each of these actions
\* is over with that call.
InitWidePlanned ==
    /\ pc = "planned"
    /\ scanned = {"source", "target"}
    /\ InitWide
    /\ tgtTree = [ q \in Nodes |-> IF q \in WidePaths THEN NoNode ELSE tgt0[q] ]
    /\ dryRun \in BOOLEAN
    /\ sourceFiles = scanDirectory("source", srcTree)
    /\ targetFiles = scanDirectory("target", tgt0)
    /\ digests = treeDigests(srcTree, tgt0)
    /\ LET r == createSyncPlan(sourceFiles, targetFiles, digests,
                               Ascending(DOMAIN sourceFiles), Ascending(DOMAIN targetFiles))
       IN  /\ plan = r.plan
           /\ checksumCalls = r.calls
    /\ ExecIdle
    /\ ScanIdle
    /\ CmdIdle
    /\ PoolIdle

\* the steps of Syncer.Run from the plan of the wide trees on.  The parent
\* of the file to add is the target root, which is there, so that
\* os.MkdirAll returns after its first os.Stat, and every Delete is over
\* with os.Lstat: no goroutine goes on inside os.MkdirAll, os.Remove or
\* os.RemoveAll here.
NextWide ==
    \/ ShowPlan
    \/ ReadConfirmation
    \/ Decide
    \/ AddOne
    \/ Dispatch
    \/ \E i \in 1..Len(plan.Actions) : FirstCall(i)
    \/ \E i \in 1..Len(plan.Actions) : SecondCall(i)
    \/ \E i \in 1..Len(plan.Actions) : Read(i)
    \/ \E i \in 1..Len(plan.Actions) : PwLock(i)
    \/ \E i \in 1..Len(plan.Actions) : PwUnlock(i)
    \/ \E i \in 1..Len(plan.Actions) : Write(i)
    \/ \E i \in 1..Len(plan.Actions) : SetTime(i)
    \/ \E i \in 1..Len(plan.Actions) : Send(i)
    \/ Release
    \/ Done
    \/ Collect

SpecWide == InitWidePlanned /\ [][NextWide]_vars

\* the steps of executePlan after the confirmation
ExecStep ==
    \/ AddOne
    \/ Dispatch
    \/ \E i \in 1..Len(plan.Actions) : FirstCall(i)
    \/ \E i \in 1..Len(plan.Actions) : Making(i)
    \/ \E i \in 1..Len(plan.Actions) : SecondCall(i)
    \/ \E i \in 1..Len(plan.Actions) : Removing(i)
    \/ \E i \in 1..Len(plan.Actions) : Read(i)
    \/ \E i \in 1..Len(plan.Actions) : PwLock(i)
    \/ \E i \in 1..Len(plan.Actions) : PwUnlock(i)
    \/ \E i \in 1..Len(plan.Actions) : Write(i)
    \/ \E i \in 1..Len(plan.Actions) : SetTime(i)
    \/ \E i \in 1..Len(plan.Actions) : Send(i)
    \/ Release
    \/ Done
    \/ Collect

\* ------------------------------------------------------------------------
\* pkg/syncer/scanner.go: one call of scanDirectory, the walk and the
\* goroutine of each node
\* ------------------------------------------------------------------------
pAD == <<97, 47, 100>>

\* ignore.IgnoreFileName, ".sync-ignore"
IgnoreFileName == <<46, 115, 121, 110, 99, 45, 105, 103, 110, 111, 114, 101>>

\* a file of that name in the directory a
pAI == pA \o <<Sep>> \o IgnoreFileName

ScanPaths == {pA, pAB, pAD, pAI, pC, IgnoreFileName}

ScanNodes == ScanPaths \cup {Root}

\* filepath.Base of a clean relative path
Base(p) ==
    LET seps == { i \in 1..Len(p) : p[i] = Sep }
    IN  IF seps = {} THEN p
        ELSE LET last == CHOOSE i \in seps : \A j \in seps : j <= i
             IN  SubSeq(p, last + 1, Len(p))

\* os.ReadDir: the entries of a directory, sorted by name
ReadDir(t, p) == Ascending({ q \in DOMAIN t : q # Root /\ Dir(q) = p /\ t[q].kind # "none" })

\* a matcher that matches nothing
MatchesNever(m, relPath) == FALSE

\* Matcher.Matches: the patterns are taken by the set of paths they match
Matches(m, relPath) == relPath \in m.matched

\* a callback that returns nil for an ignored directory as it does for a file
callbackNoSkipDir(in, p) ==
    IF p = Root THEN "nil"
    ELSE IF Base(p) = IgnoreFileName THEN "nil"
    ELSE IF in.ignoreMatcher # nil /\ Matches(in.ignoreMatcher, p) THEN "nil"
    ELSE "go"

\* the function handed to filepath.WalkDir, called with a nil error: what
\* it returns, or "go" when it starts the goroutine of the node and
\* returns nil
callback(in, p) ==
    IF p = Root THEN "nil"
    ELSE IF Base(p) = IgnoreFileName THEN "nil"
    ELSE IF in.ignoreMatcher # nil /\ Matches(in.ignoreMatcher, p)
      THEN IF in.tree[p].kind = "dir" THEN "SkipDir" ELSE "nil"
    ELSE "go"

\* entry.Info() returns an error
infoFails(in, p) == p \in in.noInfo

\* a mutex that never blocks
canLockAlways(held) == TRUE

\* mu.Lock() can proceed
canLock(held) == ~held

\* results[currentRelPath] = fi
store(m, fi) == [ q \in DOMAIN m \cup {fi.RelPath} |-> IF q = fi.RelPath THEN fi ELSE m[q] ]

\* fileinfo.New for a node of the tree
infoOf(root, t, p) ==
    New(root, p, IF t[p].kind = "dir" THEN 0 ELSE SizeOf(t[p].content), t[p].mtime, t[p].kind = "dir")

\* the trees that are scanned: a directory with two files, a path of any
\* kind next to it and an ignore file; or no root at all
ScanTrees ==
    { t \in [ScanNodes -> {NoNode, DirNode, FileNode(1, 1)}] :
        /\ t[Root] = DirNode
        /\ WellFormed(t, ScanPaths)
        /\ \A q \in {pAB, pAD, pAI, IgnoreFileName} : t[q].kind # "dir" }
    \cup { [ q \in ScanNodes |-> NoNode ] }

\* what can be wrong with a node: it matches the ignore patterns, its
\* directory cannot be listed, or its metadata cannot be read
Marks(root, t) ==
    { [mark |-> "ignore", path |-> q] : q \in { q \in ScanPaths : root = "source" /\ t[q].kind # "none" } }
    \cup { [mark |-> "unreadable", path |-> q] : q \in { q \in ScanNodes : t[q].kind = "dir" } }
    \cup { [mark |-> "noInfo", path |-> q] : q \in { q \in ScanPaths : t[q].kind # "none" } }

Marked(ms, mark) == { m.path : m \in { x \in ms : x.mark = mark } }

\* the source is scanned with the ignore matcher, the target with nil
InitScan ==
    /\ pc = "lstat"
    /\ \E root \in {"source", "target"}, t \in ScanTrees :
         \E ms \in { x \in SUBSET Marks(root, t) : Cardinality(x) <= MaxMarked } :
           scanIn = [root          |-> root,
                     tree          |-> t,
                     ignoreMatcher |-> IF root = "source" THEN [matched |-> Marked(ms, "ignore")] ELSE nil,
                     unreadable    |-> Marked(ms, "unreadable"),
                     noInfo        |-> Marked(ms, "noInfo")]
    /\ todo = << >>
    /\ visited = {}
    /\ gor = << >>
    /\ results = << >>
    /\ mu = FALSE
    /\ scanWg = 0
    /\ scanRet = nil
    /\ scanned = {}
    /\ sourceFiles = << >>
    /\ targetFiles = << >>
    /\ digests = << >>
    /\ plan = emptyPlan
    /\ checksumCalls = << >>
    /\ srcTree = emptyTree
    /\ tgtTree = emptyTree
    /\ tgt0 = emptyTree
    /\ dryRun = FALSE
    /\ ExecIdle
    /\ CmdIdle
    /\ PoolIdle

\* filepath.WalkDir: os.Lstat of the root; on an error the callback is
\* called with it and a nil entry, and returns nil
WalkStart ==
    /\ pc = "lstat"
    /\ IF scanIn.tree[Root].kind = "none"
         THEN pc' = "wait" /\ UNCHANGED todo
         ELSE pc' = "walk" /\ todo' = <<Root>>
    /\ UNCHANGED <<scanIn, visited, gor, results, mu, scanWg, scanRet, runVars>>
    /\ UNCHANGED <<cmdVars, poolVars>>

\* walkDir on the next path: the callback, then os.ReadDir of a directory
\* that was not skipped; when ReadDir fails the callback is called again
\* with the error and returns SkipDir
Visit ==
    /\ pc = "walk" /\ todo # << >>
    /\ LET p == Head(todo)
           r == callback(scanIn, p)
           descend == scanIn.tree[p].kind = "dir" /\ r # "SkipDir" /\ p \notin scanIn.unreadable
       IN  /\ todo' = (IF descend THEN ReadDir(scanIn.tree, p) ELSE << >>) \o Tail(todo)
           /\ visited' = visited \cup {p}
           /\ IF r = "go"
                THEN /\ scanWg' = scanWg + 1
                     /\ gor' = [ q \in DOMAIN gor \cup {p} |->
                                   IF q = p THEN [st |-> "started", snap |-> << >>] ELSE gor[q] ]
                ELSE UNCHANGED <<scanWg, gor>>
    /\ UNCHANGED <<pc, scanIn, results, mu, scanRet, runVars>>
    /\ UNCHANGED <<cmdVars, poolVars>>

\* filepath.WalkDir returns
WalkEnd ==
    /\ pc = "walk" /\ todo = << >>
    /\ pc' = "wait"
    /\ UNCHANGED <<scanVars, runVars>>
    /\ UNCHANGED <<cmdVars, poolVars>>

\* the goroutine of a node: entry.Info()
Info(p) ==
    /\ p \in DOMAIN gor /\ gor[p].st = "started"
    /\ IF infoFails(scanIn, p)
         THEN /\ gor' = [gor EXCEPT ![p].st = "done"]
              /\ scanWg' = scanWg - 1
         ELSE /\ gor' = [gor EXCEPT ![p].st = "ready"]
              /\ UNCHANGED scanWg
    /\ UNCHANGED <<pc, scanIn, todo, visited, results, mu, scanRet, runVars>>
    /\ UNCHANGED <<cmdVars, poolVars>>

\* the goroutine of a node: mu.Lock(); the map is read for the write
Lock(p) ==
    /\ p \in DOMAIN gor /\ gor[p].st = "ready"
    /\ canLock(mu)
    /\ mu' = TRUE
    /\ gor' = [gor EXCEPT ![p] = [st |-> "holding", snap |-> results]]
    /\ UNCHANGED <<pc, scanIn, todo, visited, results, scanWg, scanRet, runVars>>
    /\ UNCHANGED <<cmdVars, poolVars>>

\* the goroutine of a node: the write to the map and mu.Unlock()
Store(p) ==
    /\ p \in DOMAIN gor /\ gor[p].st = "holding"
    /\ results' = store(gor[p].snap, infoOf(scanIn.root, scanIn.tree, p))
    /\ mu' = FALSE
    /\ gor' = [gor EXCEPT ![p] = [st |-> "stored", snap |-> << >>]]
    /\ UNCHANGED <<pc, scanIn, todo, visited, scanWg, scanRet, runVars>>
    /\ UNCHANGED <<cmdVars, poolVars>>

\* the goroutine of a node that has stored its entry: the deferred
\* wg.Done()
StoreDone(p) ==
    /\ p \in DOMAIN gor /\ gor[p].st = "stored"
    /\ gor' = [gor EXCEPT ![p].st = "done"]
    /\ scanWg' = scanWg - 1
    /\ UNCHANGED <<pc, scanIn, todo, visited, results, mu, scanRet, runVars>>
    /\ UNCHANGED <<cmdVars, poolVars>>

\* wg.Wait(), the two error checks, return results, nil
Return ==
    /\ pc = "wait" /\ scanWg = 0
    /\ scanRet' = [results |-> results, err |-> "nil"]
    /\ pc' = "returned"
    /\ UNCHANGED <<scanIn, todo, visited, gor, results, mu, scanWg, runVars>>
    /\ UNCHANGED <<cmdVars, poolVars>>

NextScan ==
    \/ WalkStart
    \/ Visit
    \/ WalkEnd
    \/ \E p \in ScanPaths : Info(p)
    \/ \E p \in ScanPaths : Lock(p)
    \/ \E p \in ScanPaths : Store(p)
    \/ \E p \in ScanPaths : StoreDone(p)
    \/ Return

SpecScan == InitScan /\ [][NextScan]_vars

\* ------------------------------------------------------------------------
\* cmd/root.go: the checks of rootCmd.RunE on the two paths
\* ------------------------------------------------------------------------
\* the absolute paths "/x", "/x/y", "/x/.h", "/xy" and "/z"
dX == <<47, 120>>

dXY == <<47, 120, 47, 121>>

dXH == <<47, 120, 47, 46, 104>>

dXy == <<47, 120, 121>>

dZ == <<47, 122>>

AbsDirs == {dX, dXY, dXH, dXy, dZ}

\* the elements of a clean path
RECURSIVE Split(_)
Split(path) ==
    IF path = << >> THEN << >>
    ELSE IF Head(path) = Sep THEN Split(Tail(path))
    ELSE LET seps == { i \in 1..Len(path) : path[i] = Sep }
             end == IF seps = {} THEN Len(path) + 1 ELSE CHOOSE i \in seps : \A j \in seps : i <= j
         IN  <<SubSeq(path, 1, end - 1)>> \o Split(SubSeq(path, end, Len(path)))

RECURSIVE Join(_)
Join(elems) ==
    IF elems = << >> THEN << >>
    ELSE IF Len(elems) = 1 THEN elems[1]
    ELSE elems[1] \o <<Sep>> \o Join(Tail(elems))

\* the number of leading elements two paths share
RECURSIVE Shared(_, _)
Shared(b, t) ==
    IF b = << >> \/ t = << >> \/ Head(b) # Head(t) THEN 0 ELSE 1 + Shared(Tail(b), Tail(t))

\* filepath.Rel of two clean absolute paths: ".." for each element of
\* basepath beyond the shared ones, then the rest of targpath; "." when
\* both are the same
Rel(basepath, targpath) ==
    LET b == Split(basepath)
        t == Split(targpath)
        k == Shared(b, t)
        elems == [ i \in 1..(Len(b) - k) |-> <<46, 46>> ] \o SubSeq(t, k + 1, Len(t))
    IN  IF elems = << >> THEN <<46>> ELSE Join(elems)

\* filepath.IsAbs
IsAbs(path) == path # << >> /\ Head(path) = Sep

\* err == nil && !filepath.IsAbs(rel) && len(rel) > 0 && rel[0] != '.'
inside(rel) == ~IsAbs(rel) /\ Len(rel) > 0 /\ rel[1] # 46

\* what os.Stat finds at each path: a directory has to be there for
\* anything to be in it
Worlds ==
    { w \in [AbsDirs -> {"none", "file", "dir"}] :
        /\ \A q \in {dXY, dXH} : w[q] # "none" => w[dX] = "dir"
        /\ \A q \in {dXy, dZ} : w[q] # "file" }

\* os.Stat: a regular file on the way to the path, nothing at the path, or
\* no error
Stat(w, path) ==
    IF \E q \in DOMAIN w :
         /\ w[q] = "file"
         /\ Len(Split(q)) < Len(Split(path))
         /\ SubSeq(Split(path), 1, Len(Split(q))) = Split(q)
      THEN "ENOTDIR"
    ELSE IF w[path] = "none" THEN "ENOENT"
    ELSE "nil"

InitCmd ==
    /\ pc = "statSource"
    /\ \E sourcePath, targetPath \in AbsDirs, w \in Worlds :
         args = [sourcePath |-> sourcePath, targetPath |-> targetPath, stat |-> w]
    /\ cmdErr = "nil"
    /\ ScanIdle
    /\ ExecIdle
    /\ PoolIdle
    /\ scanned = {}
    /\ sourceFiles = << >>
    /\ targetFiles = << >>
    /\ digests = << >>
    /\ plan = emptyPlan
    /\ checksumCalls = << >>
    /\ srcTree = emptyTree
    /\ tgtTree = emptyTree
    /\ tgt0 = emptyTree
    /\ dryRun = FALSE

\* the source must exist and be a directory
StatSource ==
    /\ pc = "statSource"
    /\ LET err == Stat(args.stat, args.sourcePath)
       IN  IF err # "nil"
             THEN IF IsNotExist(err)
                    THEN pc' = "rejected" /\ cmdErr' = "source path does not exist"
                    ELSE pc' = "rejected" /\ cmdErr' = "could not stat source path"
             ELSE IF args.stat[args.sourcePath] # "dir"
               THEN pc' = "rejected" /\ cmdErr' = "source path is not a directory"
               ELSE pc' = "statTarget" /\ UNCHANGED cmdErr
    /\ UNCHANGED <<args, scanVars, runVars, poolVars>>

\* the target, if it exists, must be a directory
StatTarget ==
    /\ pc = "statTarget"
    /\ LET err == Stat(args.stat, args.targetPath)
       IN  IF err # "nil"
             THEN IF ~IsNotExist(err)
                    THEN pc' = "rejected" /\ cmdErr' = "could not stat target path"
                    ELSE pc' = "nesting" /\ UNCHANGED cmdErr
             ELSE IF args.stat[args.targetPath] # "dir"
               THEN pc' = "rejected" /\ cmdErr' = "target path exists but is not a directory"
               ELSE pc' = "nesting" /\ UNCHANGED cmdErr
    /\ UNCHANGED <<args, scanVars, runVars, poolVars>>

\* the two tests on the pair of paths; then the Syncer is created and run
CheckNesting ==
    /\ pc = "nesting"
    /\ IF args.sourcePath = args.targetPath
         THEN pc' = "rejected" /\ cmdErr' = "source and target paths cannot be the same"
         ELSE IF inside(Rel(args.sourcePath, args.targetPath))
           THEN pc' = "rejected" /\ cmdErr' = "target path cannot be inside the source path"
           ELSE pc' = "run" /\ UNCHANGED cmdErr
    /\ UNCHANGED <<args, scanVars, runVars, poolVars>>

NextCmd ==
    \/ StatSource
    \/ StatTarget
    \/ CheckNesting

SpecCmd == InitCmd /\ [][NextCmd]_vars

\* ------------------------------------------------------------------------
\* pkg/syncer/checksum.go: the pool of checksum workers
\* ------------------------------------------------------------------------
\* Any number of goroutines call calculateSHA256; the first call starts the
\* workers.  stopChecksumWorkers is called nowhere in the program; SpecPool
\* leaves it out and SpecLife follows one call of it.
NumCallers == 5

\* make(chan checksumJob, checksumWorkerCount*2)
jobChanCap == checksumWorkerCount * 2

\* make(chan checksumResult, 1)
resultChanCap == 1

Callers == 1..NumCallers

PoolPaths == {pA, pC}

\* a file of the pool's world: os.Open fails on one that cannot be read
PoolFile(readable, content) == [readable |-> readable, content |-> content]

\* the two files differ, and one of them may be such that it cannot be opened
PoolWorlds ==
    { f \in [PoolPaths -> {PoolFile(TRUE, 1), PoolFile(TRUE, 2), PoolFile(FALSE, 0)}] :
        f[pA] = PoolFile(TRUE, 1) /\ f[pC] # f[pA] }

\* the callers are interchangeable: the first k name one file, the others
\* the other
CallerPaths == { [ c \in Callers |-> IF c <= k THEN pA ELSE pC ] : k \in 0..NumCallers }

checksumJob(filePath, result) == [filePath |-> filePath, result |-> result]

checksumResult(filePath, checksum, err) ==
    [filePath |-> filePath, checksum |-> checksum, err |-> err]

\* the body of the worker's loop up to the send: the digest of the job's file
hashJob(job) ==
    IF poolFiles[job.filePath].readable
      THEN checksumResult(job.filePath,
                          calculateSHA256Internal(poolFiles[job.filePath].content), "nil")
      ELSE checksumResult(job.filePath, 0, "EACCES")

alreadyStartedNever == FALSE

\* if checksumWorkersStarted { return }
alreadyStarted == checksumWorkersStarted

\* the channel a worker sends the result of a job on
deliverTo(job) == job.result

InitPool ==
    /\ pc = "pool"
    /\ poolFiles \in PoolWorlds
    /\ checksumWorkersStarted = FALSE
    /\ checksumJobChan = << >>
    /\ workers = [count |-> 0, jobs |-> {}]
    /\ \E f \in CallerPaths :
         callers = [ c \in Callers |-> [pc |-> "start", filePath |-> f[c], ret |-> nil] ]
    /\ resultChan = [c \in Callers |-> << >>]
    /\ LifeIdle
    /\ ScanIdle
    /\ ExecIdle
    /\ CmdIdle
    /\ scanned = {}
    /\ sourceFiles = << >>
    /\ targetFiles = << >>
    /\ digests = << >>
    /\ plan = emptyPlan
    /\ checksumCalls = << >>
    /\ srcTree = emptyTree
    /\ tgtTree = emptyTree
    /\ tgt0 = emptyTree
    /\ dryRun = FALSE

notPool == <<pc, scanVars, runVars, cmdVars, poolFiles, lifeVars>>

\* startChecksumWorkers and make(chan checksumResult, 1).  The body of
\* startChecksumWorkers runs with checksumWorkersMu held from its first
\* statement to its return, so that no other call of it overlaps: it is one
\* step.
StartWorkers(c) ==
    /\ callers[c].pc = "start"
    /\ IF alreadyStarted
         THEN UNCHANGED <<checksumWorkersStarted, checksumJobChan, workers, chanGen>>
         ELSE /\ checksumJobChan' = << >>
              /\ checksumWorkersStarted' = TRUE
              /\ workers' = [workers EXCEPT !.count = @ + checksumWorkerCount]
              /\ chanGen' = chanGen + 1
    /\ callers' = [callers EXCEPT ![c].pc = "submit"]
    /\ resultChan' = [resultChan EXCEPT ![c] = << >>]
    /\ UNCHANGED <<pc, scanVars, runVars, cmdVars, poolFiles, jobChanClosed, stopper>>

\* checksumJobChan <- checksumJob{filePath, resultChan}
Submit(c) ==
    /\ callers[c].pc = "submit"
    /\ Len(checksumJobChan) < jobChanCap
    /\ checksumJobChan' = Append(checksumJobChan, checksumJob(callers[c].filePath, c))
    /\ callers' = [callers EXCEPT ![c].pc = "wait"]
    /\ UNCHANGED <<checksumWorkersStarted, workers, resultChan, notPool>>

\* result := <-resultChan; return result.checksum, result.err
Await(c) ==
    /\ callers[c].pc = "wait"
    /\ resultChan[c] # << >>
    /\ LET result == Head(resultChan[c])
       IN  callers' = [callers EXCEPT ![c].pc = "returned",
                                      ![c].ret = [checksum |-> result.checksum, err |-> result.err]]
    /\ resultChan' = [resultChan EXCEPT ![c] = Tail(@)]
    /\ UNCHANGED <<checksumWorkersStarted, checksumJobChan, workers, notPool>>

\* for job := range checksumJobChan: a worker that is not computing takes
\* the first job of the channel
Receive ==
    /\ Cardinality(workers.jobs) < workers.count
    /\ checksumJobChan # << >>
    /\ workers' = [workers EXCEPT !.jobs = @ \cup {Head(checksumJobChan)}]
    /\ checksumJobChan' = Tail(checksumJobChan)
    /\ UNCHANGED <<checksumWorkersStarted, callers, resultChan, notPool>>

\* checksum, err := calculateSHA256Internal(job.filePath)
\* job.result <- checksumResult{...}, which waits for room in the channel
Deliver(job) ==
    /\ job \in workers.jobs
    /\ LET ch == deliverTo(job)
       IN  /\ Len(resultChan[ch]) < resultChanCap
           /\ resultChan' = [resultChan EXCEPT ![ch] = Append(@, hashJob(job))]
    /\ workers' = [workers EXCEPT !.jobs = @ \ {job}]
    /\ UNCHANGED <<checksumWorkersStarted, checksumJobChan, callers, notPool>>

NextPool ==
    \/ \E c \in Callers : StartWorkers(c)
    \/ \E c \in Callers : Submit(c)
    \/ \E c \in Callers : Await(c)
    \/ Receive
    \/ \E job \in workers.jobs : Deliver(job)

SpecPool == InitPool /\ [][NextPool]_vars

\* ------------------------------------------------------------------------
\* pkg/syncer/checksum.go: the pool with one call of stopChecksumWorkers
\* ------------------------------------------------------------------------
NumLifeCallers == 3

LifeCallers == 1..NumLifeCallers

LifePaths == { [ c \in LifeCallers |-> IF c <= k THEN pA ELSE pC ] : k \in 0..NumLifeCallers }

\* the stopper has not called, holds checksumWorkersMu in
\* checksumWorkerWg.Wait(), or has returned; quiet says whether no call of
\* calculateSHA256 was between its first and its last statement when
\* stopChecksumWorkers took the mutex
Stopper(at, quiet) == [pc |-> at, quiet |-> quiet]

\* a send on a closed channel panics, and a panic that nothing recovers ends
\* the program
Crashed == \E c \in DOMAIN callers : callers[c].pc = "panicked"

rangeEndsNever == FALSE

\* for job := range checksumJobChan ends when the channel is closed and
\* empty
rangeEnds == jobChanClosed /\ checksumJobChan = << >>

InitLife ==
    /\ pc = "life"
    /\ poolFiles \in PoolWorlds
    /\ checksumWorkersStarted = FALSE
    /\ checksumJobChan = << >>
    /\ workers = [count |-> 0, jobs |-> {}]
    /\ \E f \in LifePaths :
         callers = [ c \in LifeCallers |->
                       [pc |-> "start", filePath |-> f[c], ret |-> nil, seen |-> 0] ]
    /\ resultChan = [c \in LifeCallers |-> << >>]
    /\ jobChanClosed = FALSE
    /\ chanGen = 0
    /\ stopper = Stopper("idle", FALSE)
    /\ ScanIdle
    /\ ExecIdle
    /\ CmdIdle
    /\ scanned = {}
    /\ sourceFiles = << >>
    /\ targetFiles = << >>
    /\ digests = << >>
    /\ plan = emptyPlan
    /\ checksumCalls = << >>
    /\ srcTree = emptyTree
    /\ tgtTree = emptyTree
    /\ tgt0 = emptyTree
    /\ dryRun = FALSE

notLife == <<pc, scanVars, runVars, cmdVars, poolFiles>>

\* startChecksumWorkers and make(chan checksumResult, 1).  The call waits in
\* checksumWorkersMu.Lock() while stopChecksumWorkers holds the mutex.  seen
\* is the job channel that was the value of checksumJobChan when the mutex
\* was released.
StartOrRestart(c) ==
    /\ callers[c].pc = "start"
    /\ stopper.pc # "waiting"
    /\ IF alreadyStarted
         THEN /\ UNCHANGED <<checksumWorkersStarted, checksumJobChan, workers,
                             jobChanClosed, chanGen>>
              /\ callers' = [callers EXCEPT ![c].pc = "submit", ![c].seen = chanGen]
         ELSE /\ checksumJobChan' = << >>
              /\ jobChanClosed' = FALSE
              /\ chanGen' = chanGen + 1
              /\ checksumWorkersStarted' = TRUE
              /\ workers' = [workers EXCEPT !.count = @ + checksumWorkerCount]
              /\ callers' = [callers EXCEPT ![c].pc = "submit", ![c].seen = chanGen + 1]
    /\ resultChan' = [resultChan EXCEPT ![c] = << >>]
    /\ UNCHANGED <<stopper, notLife>>

\* checksumJobChan <- checksumJob{filePath, resultChan}.  The variable is
\* read without the mutex: when startChecksumWorkers has assigned it since
\* this call released the mutex, the read races with the assignment and
\* gives the channel this call saw or a later one.  Every channel but the
\* last was closed by stopChecksumWorkers.
SubmitOrPanic(c) ==
    /\ callers[c].pc = "submit"
    /\ \E g \in callers[c].seen..chanGen :
         IF g < chanGen \/ jobChanClosed
           THEN /\ callers' = [callers EXCEPT ![c].pc = "panicked"]
                /\ UNCHANGED checksumJobChan
           ELSE /\ Len(checksumJobChan) < jobChanCap
                /\ checksumJobChan' = Append(checksumJobChan, checksumJob(callers[c].filePath, c))
                /\ callers' = [callers EXCEPT ![c].pc = "wait"]
    /\ UNCHANGED <<checksumWorkersStarted, workers, resultChan, lifeVars, notLife>>

\* the range loop of a worker that is not computing ends, and the deferred
\* checksumWorkerWg.Done() runs
WorkerExit ==
    /\ rangeEnds
    /\ Cardinality(workers.jobs) < workers.count
    /\ workers' = [workers EXCEPT !.count = @ - 1]
    /\ UNCHANGED <<checksumWorkersStarted, checksumJobChan, callers, resultChan,
                   lifeVars, notLife>>

\* stopChecksumWorkers from checksumWorkersMu.Lock() to close(checksumJobChan):
\* no call of startChecksumWorkers overlaps
StopClose ==
    /\ stopper.pc = "idle"
    /\ LET quiet == \A c \in DOMAIN callers : callers[c].pc \in {"start", "returned"}
       IN  IF ~checksumWorkersStarted
             THEN /\ stopper' = Stopper("done", quiet)
                  /\ UNCHANGED jobChanClosed
             ELSE /\ jobChanClosed' = TRUE
                  /\ stopper' = Stopper("waiting", quiet)
    /\ UNCHANGED <<checksumWorkersStarted, checksumJobChan, workers, callers,
                   resultChan, chanGen, notLife>>

\* checksumWorkerWg.Wait() returns when every worker has run Done();
\* checksumWorkersStarted = false; the deferred Unlock
StopReturn ==
    /\ stopper.pc = "waiting"
    /\ workers.count = 0
    /\ checksumWorkersStarted' = FALSE
    /\ stopper' = Stopper("done", stopper.quiet)
    /\ UNCHANGED <<checksumJobChan, workers, callers, resultChan, jobChanClosed,
                   chanGen, notLife>>

\* a panic ends the program: no goroutine takes a further step
NextLife ==
    \/ ~Crashed /\ \E c \in LifeCallers : StartOrRestart(c)
    \/ ~Crashed /\ \E c \in LifeCallers : SubmitOrPanic(c)
    \/ ~Crashed /\ \E c \in LifeCallers : Await(c)
    \/ ~Crashed /\ Receive
    \/ ~Crashed /\ \E job \in workers.jobs : Deliver(job)
    \/ ~Crashed /\ WorkerExit
    \/ ~Crashed /\ StopClose
    \/ ~Crashed /\ StopReturn

SpecLife == InitLife /\ [][NextLife]_vars

\* ------------------------------------------------------------------------
\* pkg/syncer/executor.go: the body of one goroutine of executePlan, run
\* alone on a target tree that need not be the one that was scanned
\* ------------------------------------------------------------------------
\* what a scan of the source gives for a file of the tree
FileInfoOf(root, t, p) == New(root, p, SizeOf(t[p].content), t[p].mtime, FALSE)

\* the Adds and Updates of the files of the source tree: the TargetInfo of
\* an Update is the entry of the target file as it was scanned
FileActions(src) ==
    { SyncAction(type, FileInfoOf("source", src, p),
                 IF type = Add THEN nil ELSE New("target", p, 1, 1, FALSE), p) :
        type \in {Add, Update}, p \in { q \in SmallPaths : src[q].kind = "file" } }

\* an Update of a directory of the source tree, which createSyncPlan does
\* not make
DirUpdates(src) ==
    { SyncAction(Update, New("source", p, 0, 0, TRUE), New("target", p, 0, 0, TRUE), p) :
        p \in { q \in SmallPaths : src[q].kind = "dir" } }

InitStep ==
    /\ pc = "step"
    /\ srcTree \in Trees(SmallPaths, SourceFileNodes)
    /\ tgtTree \in Trees(SmallPaths, TargetFileNodes) \cup {emptyTree}
    /\ tgt0 = tgtTree
    /\ dryRun = FALSE
    /\ \E act \in FileActions(srcTree) \cup DirUpdates(srcTree) :
         plan = [emptyPlan EXCEPT !.Actions = <<act>>,
                                  !.Adds = IF act.Type = Add THEN 1 ELSE 0,
                                  !.Updates = IF act.Type = Update THEN 1 ELSE 0]
    /\ scanned = {}
    /\ sourceFiles = << >>
    /\ targetFiles = << >>
    /\ digests = << >>
    /\ checksumCalls = << >>
    /\ ExecIdle
    /\ ScanIdle
    /\ CmdIdle
    /\ PoolIdle

\* the switch on act.Type, from its first file-system call to its last, and
\* the send of execErr on errChan, which has room for it
RunAction ==
    /\ pc = "step"
    /\ LET r == wholeAction(srcTree, tgtTree, plan.Actions[1])
       IN  /\ tgtTree' = r.tree
           /\ execErr' = <<r.err>>
           /\ errChan' = sendErr(errChan, 1, r.err)
    /\ pc' = "stepped"
    /\ UNCHANGED <<scanned, planVars, srcTree, tgt0, dryRun, scanVars, cmdVars, poolVars>>
    /\ UNCHANGED <<response, next, st, attempts, sem, wg, errors, execRet, runErr, faults, copyMu, inCall>>

NextStep == RunAction

SpecStep == InitStep /\ [][NextStep]_vars

\* ------------------------------------------------------------------------
\* Properties of the plan
\* ------------------------------------------------------------------------
Planned == pc = "planned"

\* positions of the plan's actions of a given type for a path
At(p, type) ==
    { i \in 1..Len(plan.Actions) : plan.Actions[i].RelPath = p /\ plan.Actions[i].Type = type }

AnyAt(p) == { i \in 1..Len(plan.Actions) : plan.Actions[i].RelPath = p }

OfType(type) == { i \in 1..Len(plan.Actions) : plan.Actions[i].Type = type }

InBoth(p) == p \in DOMAIN sourceFiles /\ p \in DOMAIN targetFiles

Mismatch(p) == InBoth(p) /\ sourceFiles[p].IsDir # targetFiles[p].IsDir

FilesInBoth(p) == InBoth(p) /\ ~sourceFiles[p].IsDir /\ ~targetFiles[p].IsDir

SameSecond(p) == (sourceFiles[p].ModTime \div Second) = (targetFiles[p].ModTime \div Second)

Asked(p) ==
    \E i \in 1..Len(checksumCalls) : checksumCalls[i].rel = p

\* C2: in every plan the Delete actions form a contiguous prefix: no Delete
\* comes after an action that is not a Delete.
ThmDeletePrefix ==
    Planned =>
      \A i, j \in 1..Len(plan.Actions) :
        (i < j /\ plan.Actions[i].Type # Delete) => plan.Actions[j].Type # Delete

\* a plan with a Delete of a path that sorts after the path of an Add
WitDeletePrefix ==
    /\ Planned
    /\ \E i, j \in 1..Len(plan.Actions) :
         /\ plan.Actions[i].Type = Delete
         /\ plan.Actions[j].Type = Add
         /\ StrLess(plan.Actions[j].RelPath, plan.Actions[i].RelPath)

\* C3: a path only in the source mapping gets exactly one action, an Add; a
\* path only in the target mapping gets exactly one action, a Delete; a path
\* that is a directory in both gets none; a path in neither gets none.
ThmDecisionTable ==
    Planned =>
      \A p \in Paths :
        /\ (p \in DOMAIN sourceFiles /\ p \notin DOMAIN targetFiles) =>
             (Cardinality(At(p, Add)) = 1 /\ Cardinality(AnyAt(p)) = 1)
        /\ (p \notin DOMAIN sourceFiles /\ p \in DOMAIN targetFiles) =>
             (Cardinality(At(p, Delete)) = 1 /\ Cardinality(AnyAt(p)) = 1)
        /\ (InBoth(p) /\ sourceFiles[p].IsDir /\ targetFiles[p].IsDir) => AnyAt(p) = {}
        /\ (p \notin DOMAIN sourceFiles /\ p \notin DOMAIN targetFiles) => AnyAt(p) = {}

\* a plan made from a path only in the source, a path only in the target
\* and a directory present in both
WitDecisionTable ==
    /\ Planned
    /\ \E p, q, r \in Paths :
         /\ p \in DOMAIN sourceFiles /\ p \notin DOMAIN targetFiles
         /\ q \notin DOMAIN sourceFiles /\ q \in DOMAIN targetFiles
         /\ InBoth(r) /\ sourceFiles[r].IsDir /\ targetFiles[r].IsDir

\* C4: a path that is a directory on one side and a file on the other gets
\* no Update; it gets exactly one Delete, carrying the target entry, and
\* exactly one Add, carrying the source entry, the Delete before the Add.
ThmTypeMismatch ==
    Planned =>
      \A p \in Paths : Mismatch(p) =>
        /\ At(p, Update) = {}
        /\ Cardinality(At(p, Delete)) = 1
        /\ Cardinality(At(p, Add)) = 1
        /\ \A i \in At(p, Delete) :
             /\ plan.Actions[i].TargetInfo = targetFiles[p]
             /\ plan.Actions[i].TargetInfo.IsDir = targetFiles[p].IsDir
        /\ \A j \in At(p, Add) :
             /\ plan.Actions[j].SourceInfo = sourceFiles[p]
             /\ plan.Actions[j].SourceInfo.IsDir = sourceFiles[p].IsDir
        /\ \A i \in At(p, Delete), j \in At(p, Add) : i < j

\* a plan for a path that is a directory in the source and a file in the
\* target
WitTypeMismatch ==
    /\ Planned
    /\ \E p \in Paths : Mismatch(p) /\ sourceFiles[p].IsDir /\ At(p, Add) # {}

\* C5: the three counters of a plan equal the numbers of its actions of
\* each kind, so that the length of the plan is their sum.
ThmCounts ==
    Planned =>
      /\ plan.Adds = Cardinality(OfType(Add))
      /\ plan.Updates = Cardinality(OfType(Update))
      /\ plan.Deletes = Cardinality(OfType(Delete))
      /\ Len(plan.Actions) = plan.Adds + plan.Updates + plan.Deletes

\* a plan holding actions of all three kinds
WitCounts ==
    /\ Planned
    /\ plan.Adds > 0 /\ plan.Updates > 0 /\ plan.Deletes > 1

\* C6: two files of equal size whose modification times fall in the same
\* second get no Update, and no digest is requested for them, whatever the
\* digests of their contents are.
ThmNoOp ==
    Planned =>
      \A p \in Paths :
        (FilesInBoth(p) /\ sourceFiles[p].Size = targetFiles[p].Size /\ SameSecond(p)) =>
          (AnyAt(p) = {} /\ ~Asked(p))

\* such a pair whose times differ within the second and whose contents
\* have different digests
WitNoOp ==
    /\ Planned
    /\ \E p \in Paths :
         /\ FilesInBoth(p) /\ sourceFiles[p].Size = targetFiles[p].Size /\ SameSecond(p)
         /\ sourceFiles[p].ModTime # targetFiles[p].ModTime
         /\ digests[sourceFiles[p].AbsPath].err = "nil"
         /\ digests[targetFiles[p].AbsPath].err = "nil"
         /\ digests[sourceFiles[p].AbsPath] # digests[targetFiles[p].AbsPath]

Inconclusive(p) ==
    FilesInBoth(p) /\ sourceFiles[p].Size = targetFiles[p].Size /\ ~SameSecond(p)

\* C7: for two files of equal size whose modification times fall in
\* different seconds, a failure of the digest of the source file or of the
\* target file, with any error, yields an Update for the path.
ThmConservative ==
    Planned =>
      \A p \in Paths :
        ( /\ Inconclusive(p)
          /\ \/ digests[sourceFiles[p].AbsPath].err # "nil"
             \/ digests[targetFiles[p].AbsPath].err # "nil" ) =>
          (Cardinality(At(p, Update)) = 1 /\ Cardinality(AnyAt(p)) = 1)

\* a plan made when the digest of the source file fails with an error other
\* than a missing file while the digest of the target file would succeed
WitConservative ==
    /\ Planned
    /\ \E p \in Paths :
         /\ Inconclusive(p)
         /\ digests[sourceFiles[p].AbsPath].err = "EIO"
         /\ digests[targetFiles[p].AbsPath].err = "nil"
         /\ At(p, Update) # {}

\* ------------------------------------------------------------------------
\* Properties of Syncer.Run
\* ------------------------------------------------------------------------
\* executePlan was confirmed, was not a dry run, and has returned
Ran == pc = "done" /\ DOMAIN st # {}

Failed == { i \in DOMAIN execErr : execErr[i] # "nil" }

Succeeded == { i \in DOMAIN execErr : execErr[i] = "nil" }

\* the actions whose goroutine is between its start and the return of its
\* function
InFlight == Running

\* the plan of a second run on the trees as they are now
Replan ==
    LET sf == scanDirectory("source", srcTree)
        tf == scanDirectory("target", tgtTree)
    IN  createSyncPlan(sf, tf, treeDigests(srcTree, tgtTree),
                       Ascending(DOMAIN sf), Ascending(DOMAIN tf)).plan

\* C1: after a confirmed run that is not a dry run and in which every
\* action reported success, scanning both trees again and planning again
\* gives a plan with no action, whatever the interleaving of the actions was.
CexIdempotent == (Ran /\ Failed = {}) => Len(Replan.Actions) = 0

\* what the plan leaves when its actions run one at a time in plan order
Sequential == inPlanOrder(srcTree, tgt0, plan.Actions, 1, {})

\* C8: the target tree and the set of reported action errors at the end of
\* executePlan do not depend on the interleaving of the actions: they are
\* those of the run that takes the actions one at a time in plan order.
CexIndependent ==
    (Ran /\ faults = 0) =>
        /\ tgtTree = Sequential.tree
        /\ { errors[k] : k \in DOMAIN errors } = Sequential.errs

\* C9: a confirmed run that is not a dry run starts every action exactly
\* once whatever the others returned, reports exactly one error for each
\* failed action and none for the others, returns an error exactly when an
\* action failed, and Syncer.Run returns an error exactly when executePlan
\* did.
ThmAttemptAll ==
    /\ \A i \in DOMAIN attempts : attempts[i] <= 1
    /\ Ran =>
         /\ DOMAIN st = 1..Len(plan.Actions)
         /\ \A i \in DOMAIN attempts : attempts[i] = 1
         /\ Len(errors) = Cardinality(Failed)
         /\ \A i \in Failed :
              Cardinality({ k \in DOMAIN errors : errors[k].action = i }) = 1
              /\ \E k \in DOMAIN errors : errors[k] = [action |-> i, err |-> execErr[i]]
         /\ \A k \in DOMAIN errors : errors[k].action \in Failed
         /\ (execRet # "nil") <=> (Failed # {})
    /\ pc = "done" => ((runErr # "nil") <=> (execRet # "nil"))

\* an action failed and an action after it in the plan was still carried
\* out with success
WitAttemptAll ==
    /\ Ran
    /\ \E i \in Failed, j \in Succeeded : i < j /\ plan.Actions[j].Type # Delete
    /\ Len(errors) = Cardinality(Failed)
    /\ runErr # "nil"

\* C10: at every moment of executePlan at most maxConcurrentOps actions are
\* in flight, also for a plan with more actions than that.
ThmBounded ==
    /\ Cardinality(InFlight) <= sem
    /\ sem <= maxConcurrentOps

\* the semaphore is full and the dispatch loop has more actions to start
WitBounded ==
    /\ pc = "exec"
    /\ Cardinality(InFlight) = maxConcurrentOps
    /\ next <= Len(plan.Actions)

\* C11: in a dry run executePlan changes nothing in the target tree, does
\* not ask for confirmation, starts no action, and returns nil.
ThmDryRun ==
    dryRun =>
        /\ tgtTree = tgt0
        /\ pc \notin {"prompt", "answered", "exec"}
        /\ response = << >>
        /\ DOMAIN st = {}
        /\ pc = "done" => (execRet = "nil" /\ runErr = "nil")

\* a dry run of a plan that has actions has returned
WitDryRun == dryRun /\ pc = "done" /\ Len(plan.Actions) > 0

\* the responses of the model that read "", "y" or "yes" once trimmed and
\* lower-cased: "\n", "y\n" and " YES \n"
Affirmative == { <<10>>, <<121, 10>>, <<32, 89, 69, 83, 32, 10>> }

\* C12: without dry-run no action is started and the target tree is as it
\* was scanned until the response has been read and tested; executePlan goes
\* on exactly when the trimmed, lower-cased response is "", "y" or "yes";
\* on any other response it returns nil and the target tree is unchanged.
ThmConfirm ==
    /\ [](pc \in {"scan", "plan", "planned", "prompt", "answered"} =>
            (tgtTree = tgt0 /\ \A i \in DOMAIN attempts : attempts[i] = 0))
    /\ [][pc = "answered" =>
            IF response \in Affirmative
              THEN pc' = "exec"
              ELSE /\ pc' = "done"
                   /\ tgtTree' = tgt0
                   /\ DOMAIN st' = {}
                   /\ execRet' = "nil"
                   /\ runErr' = "nil"]_vars

\* the user declined a plan that has actions and executePlan has returned
WitConfirm ==
    /\ ~dryRun /\ pc = "done" /\ Len(plan.Actions) > 0
    /\ DOMAIN st = {}
    /\ execRet = "nil"
    /\ tgtTree = tgt0

\* C13: among the Delete actions of a plan the depth of the path never
\* increases with the position, so the Delete of a directory never comes
\* before the Delete of one of its descendants.
ThmDeepestFirst ==
    Planned =>
      \A i, j \in OfType(Delete) :
        i < j =>
          /\ Count(plan.Actions[i].RelPath, Sep) >= Count(plan.Actions[j].RelPath, Sep)
          /\ ~IsAncestor(plan.Actions[i].RelPath, plan.Actions[j].RelPath)

\* a plan that deletes a directory, a file in it, and a path that sorts
\* after both
WitDeepestFirst ==
    /\ Planned
    /\ At(pA, Delete) # {} /\ At(pAB, Delete) # {} /\ At(pC, Delete) # {}

\* C14, as stated: among the Add and Update actions of a plan the paths
\* ascend with the position, whatever the kinds of the actions.
CexAscending ==
    Planned =>
      \A i, j \in OfType(Add) \cup OfType(Update) :
        i < j => StrLess(plan.Actions[i].RelPath, plan.Actions[j].RelPath)

\* C14, as the comparator has it: every Update comes before every Add; the
\* paths ascend among the Updates and among the Adds.
ThmUpdatesThenAdds ==
    Planned =>
      \A i, j \in OfType(Add) \cup OfType(Update) :
        i < j =>
          /\ plan.Actions[i].Type = Add => plan.Actions[j].Type = Add
          /\ plan.Actions[i].Type = plan.Actions[j].Type =>
               StrLess(plan.Actions[i].RelPath, plan.Actions[j].RelPath)

\* a plan with two Adds and an Update of a path that sorts after theirs
WitUpdatesThenAdds ==
    /\ Planned
    /\ At(pA, Add) # {} /\ At(pAB, Add) # {} /\ At(pC, Update) # {}

\* ------------------------------------------------------------------------
\* Properties of scanDirectory
\* ------------------------------------------------------------------------
Returned == pc = "returned" /\ scanRet # nil

Exists(p) == scanIn.tree[p].kind # "none"

\* the directories whose subtree the ignore patterns prune
IgnoredDirs ==
    IF scanIn = nil \/ scanIn.ignoreMatcher = nil THEN {}
    ELSE { p \in ScanPaths : /\ p \in scanIn.ignoreMatcher.matched
                             /\ scanIn.tree[p].kind = "dir"
                             /\ Base(p) # IgnoreFileName }

\* the files the ignore patterns leave out
IgnoredFiles ==
    IF scanIn = nil \/ scanIn.ignoreMatcher = nil THEN {}
    ELSE { p \in ScanPaths : p \in scanIn.ignoreMatcher.matched /\ scanIn.tree[p].kind = "file" }

Below(p) == { q \in ScanPaths : IsAncestor(p, q) }

\* the nodes next to p that nothing is wrong with
GoodSiblings(p) ==
    { q \in ScanPaths \ {p} :
        /\ Dir(q) = Dir(p) /\ Exists(q)
        /\ Base(q) # IgnoreFileName
        /\ q \notin scanIn.noInfo
        /\ scanIn.ignoreMatcher # nil => q \notin scanIn.ignoreMatcher.matched }

\* C15: when the ignore predicate matches a directory in the source scan,
\* the directory and its descendants are not in the returned mapping and the
\* callback is never called on a descendant; an ignored file is left out and
\* the nodes next to it are in the mapping all the same.
ThmHardPruning ==
    /\ \A p \in IgnoredDirs : \A q \in Below(p) : q \notin visited /\ q \notin DOMAIN gor
    /\ Returned =>
         /\ \A p \in IgnoredDirs : \A q \in {p} \cup Below(p) : q \notin DOMAIN scanRet.results
         /\ \A p \in IgnoredFiles :
              /\ p \notin DOMAIN scanRet.results
              /\ p \in visited => \A q \in GoodSiblings(p) : q \in DOMAIN scanRet.results

\* the scan of a source whose directory a is ignored and has a file in it
\* has returned, with the path next to a in the mapping
WitHardPruning ==
    /\ Returned
    /\ pA \in IgnoredDirs /\ Exists(pAB)
    /\ pC \in DOMAIN scanRet.results

\* the nodes the walk reaches: no directory above them is pruned by the
\* ignore patterns or cannot be listed
Reached ==
    { p \in ScanPaths :
        /\ Exists(p)
        /\ \A q \in ScanNodes : (q = p \/ IsAncestor(q, p)) => Exists(q)
        /\ \A q \in ScanNodes : IsAncestor(q, p) => (q \notin scanIn.unreadable /\ q \notin IgnoredDirs) }

\* the nodes that are not ignored and whose metadata is read
Kept ==
    { p \in Reached :
        /\ Base(p) # IgnoreFileName
        /\ p \notin IgnoredDirs \cup IgnoredFiles
        /\ p \notin scanIn.noInfo }

\* C16: the returned mapping has exactly one entry, under its relative
\* path, for each node that is not the root, is not ignored and whose
\* metadata was read, whatever the interleaving of the goroutines; when
\* scanDirectory returns every goroutine has finished.
ThmNoLostUpdate ==
    Returned =>
        /\ DOMAIN scanRet.results = Kept
        /\ Root \notin DOMAIN scanRet.results
        /\ \A p \in DOMAIN scanRet.results :
             /\ scanRet.results[p].RelPath = p
             /\ scanRet.results[p].IsDir = (scanIn.tree[p].kind = "dir")
             /\ scanRet.results[p].AbsPath = [root |-> scanIn.root, rel |-> p]
        /\ \A p \in DOMAIN gor : gor[p].st = "done"
        /\ scanWg = 0 /\ ~mu
        /\ results = scanRet.results
        /\ (/\ scanIn.unreadable = {} /\ scanIn.noInfo = {}
            /\ IgnoredDirs \cup IgnoredFiles = {}
            /\ \A q \in ScanPaths : Base(q) = IgnoreFileName => ~Exists(q))
             => scanRet.results = scanDirectory(scanIn.root, scanIn.tree)

\* a scan of a tree in which four goroutines wrote to the map has returned
WitNoLostUpdate ==
    /\ Returned
    /\ {pA, pAB, pAD, pC} \subseteq DOMAIN scanRet.results

\* C18: a node with an access error, be it a walk error on the node or a
\* failure to read its metadata, is not in the mapping; scanDirectory
\* returns no error and the accessible nodes next to it are in the mapping.
\* A directory that cannot be listed has been handed to its goroutine, with
\* a nil error, before os.ReadDir fails on it: it is in the mapping.
CexAccessError ==
    Returned =>
        /\ scanRet.err = "nil"
        /\ \A p \in (scanIn.unreadable \cup scanIn.noInfo) \cap Reached :
             /\ p \notin DOMAIN scanRet.results
             /\ \A q \in GoodSiblings(p) : q \in DOMAIN scanRet.results

\* ------------------------------------------------------------------------
\* Properties of Syncer.Run: missing roots, deletes of missing paths
\* ------------------------------------------------------------------------
\* C17: the scan of a target root that does not exist returns an empty
\* mapping and no error, so the plan has an Add for every source entry and
\* no Delete; when the source root does not exist the run ends with an error
\* before a plan is made.
CexMissingRoot ==
    /\ (tgt0[Root].kind = "none" /\ "target" \in scanned) =>
         /\ targetFiles = << >>
         /\ Planned => (OfType(Delete) = {} /\ \A p \in DOMAIN sourceFiles : At(p, Add) # {})
    /\ srcTree[Root].kind = "none" =>
         /\ pc \in {"scan", "done"}
         /\ plan = emptyPlan
         /\ pc = "done" => runErr # "nil"

\* C19: a Delete whose target path no longer exists when it removes it ends
\* with success and reports no error.
CexDeleteGone ==
    [][\A i \in DOMAIN st :
         (/\ plan.Actions[i].Type = Delete
          /\ st[i] \in {"started", "mid"}
          /\ IsNotExist(Lstat(tgtTree, plan.Actions[i].RelPath))
          /\ st'[i] \in {"sending", "deferred"})
            => execErr'[i] = "nil"]_vars

\* ------------------------------------------------------------------------
\* Properties of rootCmd.RunE
\* ------------------------------------------------------------------------
\* one path is the other or lies below it, element by element
Nested(outer, inner) ==
    LET o == Split(outer)
        n == Split(inner)
    IN  Len(o) <= Len(n) /\ SubSeq(n, 1, Len(o)) = o

\* C20: the command starts the Syncer only when source and target are not
\* the same path and neither lies inside the other, whatever the names of
\* the directories; every other pair is rejected before any scan.
CexNested ==
    pc = "run" =>
        /\ ~Nested(args.sourcePath, args.targetPath)
        /\ ~Nested(args.targetPath, args.sourcePath)

\* ------------------------------------------------------------------------
\* Properties of Syncer.Run: what the target holds afterwards
\* ------------------------------------------------------------------------
\* Syncer.Run has returned nil from a run that was not a dry run and that
\* the user did not decline
Completed ==
    /\ pc = "done" /\ ~dryRun /\ runErr = "nil"
    /\ Ran \/ Len(plan.Actions) = 0

\* C21: when the target directory does not exist before the run, it exists
\* after a run that was not a dry run, was not declined and returned no
\* error, whatever the source tree holds, an empty source included.
CexTargetCreated ==
    (Completed /\ srcTree[Root].kind = "dir" /\ tgt0[Root].kind = "none")
        => tgtTree[Root].kind = "dir"


\* ------------------------------------------------------------------------
\* Properties of the checksum pool
\* ------------------------------------------------------------------------
Hashing == workers.jobs

\* the jobs and results of caller c that are somewhere between its send and
\* its receive
Pending(c) ==
    Cardinality({ i \in 1..Len(checksumJobChan) : checksumJobChan[i].result = c })
      + Cardinality({ job \in Hashing : job.result = c })
      + Len(resultChan[c])

\* what os.Open and the digest give for the file caller c names
Expected(c) ==
    LET f == poolFiles[callers[c].filePath]
    IN  IF f.readable THEN [checksum |-> 256 + f.content, err |-> "nil"]
                      ELSE [checksum |-> 0, err |-> "EACCES"]

\* C22: at most checksumWorkerCount digests are being computed at any time;
\* a caller that waits has exactly one job or result under way and every
\* other caller none; a caller returns the digest or the error of the file it
\* named; and a worker that is to send a result finds room in the channel.
ThmPool ==
    /\ Cardinality(Hashing) <= checksumWorkerCount
    /\ \A c \in DOMAIN callers :
         /\ Pending(c) = IF callers[c].pc = "wait" THEN 1 ELSE 0
         /\ callers[c].pc = "returned" => callers[c].ret = Expected(c)
         /\ callers[c].pc # "returned" => callers[c].ret = nil
    /\ \A job \in Hashing :
         /\ job.filePath = callers[job.result].filePath
         /\ Len(resultChan[job.result]) < resultChanCap

\* every worker computes a digest while a further job waits in the channel
WitPoolFull ==
    /\ Cardinality(Hashing) = checksumWorkerCount
    /\ checksumJobChan # << >>


\* ------------------------------------------------------------------------
\* Further properties of the plan
\* ------------------------------------------------------------------------
\* the plan of the same mappings and digests with both maps iterated in
\* ascending order of their keys
Canonical ==
    createSyncPlan(sourceFiles, targetFiles, digests,
                   Ascending(DOMAIN sourceFiles), Ascending(DOMAIN targetFiles)).plan

\* C23: whatever the order in which the two maps were iterated, the plan
\* (actions and counts) is the one obtained with both iterated in ascending
\* order, and of two distinct actions of the plan the comparator puts exactly
\* one before the other.
ThmDeterministic ==
    Planned =>
      /\ plan = Canonical
      /\ \A i, j \in 1..Len(plan.Actions) :
           i # j => /\ plan.Actions[i] # plan.Actions[j]
                    /\ less(plan.Actions[i], plan.Actions[j]) # less(plan.Actions[j], plan.Actions[i])

\* a plan with a Delete and an Add of one path and two further actions of
\* one type
WitDeterministic ==
    /\ Planned
    /\ \E p \in DOMAIN sourceFiles : Mismatch(p)
    /\ \E i, j \in 1..Len(plan.Actions) :
         /\ i < j
         /\ plan.Actions[i].Type = plan.Actions[j].Type
         /\ depth(plan.Actions[i].RelPath) = depth(plan.Actions[j].RelPath)


\* ------------------------------------------------------------------------
\* Further properties of Syncer.Run
\* ------------------------------------------------------------------------
KindOf(fi) == IF fi.IsDir THEN "dir" ELSE "file"

\* the paths that were a directory on one side and a file on the other when
\* the run began
Mismatched ==
    { p \in DOMAIN srcTree \ {Root} :
        /\ srcTree[p].kind # "none" /\ tgt0[p].kind # "none"
        /\ srcTree[p].kind # tgt0[p].kind }

\* C24: once executePlan has carried out, without error, the Delete and the
\* Add of a path that was a directory on one side and a file on the other,
\* the target holds at that path a node of the source's kind, whatever the
\* interleaving of the actions was.
CexMismatchReplaced ==
    Ran =>
      \A p \in Mismatched :
        ( /\ At(p, Delete) # {} /\ At(p, Add) # {}
          /\ \A i \in AnyAt(p) : i \in Succeeded ) =>
          tgtTree[p].kind = srcTree[p].kind

\* C25: when a confirmed run that is not a dry run returns no error, every
\* path of the source mapping is in the target with the kind it has in the
\* source, and no path of the target mapping that is absent from the source
\* mapping is left in the target.
CexConverged ==
    (Ran /\ execRet = "nil") =>
      /\ \A p \in DOMAIN sourceFiles : tgtTree[p].kind = KindOf(sourceFiles[p])
      /\ \A p \in DOMAIN targetFiles \ DOMAIN sourceFiles : tgtTree[p].kind = "none"


\* the digest computations asked for the files at path p, in order
CallsFor(p) == SelectSeq(checksumCalls, LAMBDA a : a.rel = p)

\* C26: a digest is computed only for a pair of files of equal size whose
\* times differ after truncation to the second; a pair of files of different
\* size gets an Update and no digest; and a pair for which both digests are
\* computed with success (the source's, then the target's, once each) gets an
\* Update exactly when the digests differ.
ThmDigestWhenNeeded ==
    Planned =>
      /\ \A i \in 1..Len(checksumCalls) : Inconclusive(checksumCalls[i].rel)
      /\ \A p \in Paths :
           /\ (FilesInBoth(p) /\ sourceFiles[p].Size # targetFiles[p].Size) =>
                /\ Cardinality(At(p, Update)) = 1 /\ Cardinality(AnyAt(p)) = 1
                /\ CallsFor(p) = << >>
           /\ ( /\ Inconclusive(p)
                /\ digests[sourceFiles[p].AbsPath].err = "nil"
                /\ digests[targetFiles[p].AbsPath].err = "nil" ) =>
                /\ CallsFor(p) = <<sourceFiles[p].AbsPath, targetFiles[p].AbsPath>>
                /\ AnyAt(p) = At(p, Update)
                /\ Cardinality(At(p, Update)) =
                     IF digests[sourceFiles[p].AbsPath].checksum
                          # digests[targetFiles[p].AbsPath].checksum THEN 1 ELSE 0

\* a plan for a pair of files of different size and different times, and a
\* pair of equal size and different times with equal digests
WitDigestWhenNeeded ==
    /\ Planned
    /\ \E p, q \in Paths :
         /\ FilesInBoth(p) /\ sourceFiles[p].Size # targetFiles[p].Size /\ ~SameSecond(p)
         /\ Inconclusive(q)
         /\ digests[sourceFiles[q].AbsPath].err = "nil"
         /\ digests[sourceFiles[q].AbsPath] = digests[targetFiles[q].AbsPath]
         /\ Asked(q) /\ AnyAt(q) = {}


\* files of equal size in both mappings at path p
EqualSize(p) == FilesInBoth(p) /\ sourceFiles[p].Size = targetFiles[p].Size

\* the distance of the two modification times of path p
TimeDiff(p) ==
    IF sourceFiles[p].ModTime >= targetFiles[p].ModTime
      THEN sourceFiles[p].ModTime - targetFiles[p].ModTime
      ELSE targetFiles[p].ModTime - sourceFiles[p].ModTime

\* C27, as stated: for files of equal size digests are computed exactly when
\* the modification times are more than one second apart, and times one
\* second or less apart give no digest computation and no action.
CexTolerance ==
    Planned =>
      \A p \in Paths :
        EqualSize(p) =>
          /\ Asked(p) <=> TimeDiff(p) > Second
          /\ TimeDiff(p) <= Second => (~Asked(p) /\ AnyAt(p) = {})

\* C27, amended: for files of equal size digests are computed exactly when
\* the modification times fall in different whole seconds, however close
\* they are; times within one whole second give no digest computation and no
\* action.
ThmSecondBoundary ==
    Planned =>
      \A p \in Paths :
        EqualSize(p) =>
          /\ Asked(p) <=> ~SameSecond(p)
          /\ SameSecond(p) => AnyAt(p) = {}

\* files of equal size whose times are less than a second apart, on the two
\* sides of a second boundary, and whose digests were computed
WitSecondBoundary ==
    /\ Planned
    /\ \E p \in Paths :
         /\ EqualSize(p)
         /\ TimeDiff(p) > 0 /\ TimeDiff(p) < Second
         /\ ~SameSecond(p)
         /\ Asked(p)


\* ------------------------------------------------------------------------
\* Properties of one action run alone
\* ------------------------------------------------------------------------
Stepped == pc = "stepped"

\* the action of the step, and whether the directory that is to hold its
\* target path was missing when it ran
TheAction == plan.Actions[1]

ParentAbsent ==
    ~TheAction.SourceInfo.IsDir /\ tgt0[Dir(TheAction.RelPath)].kind = "none"

\* the file of the action is in the target as it is in the source
Copied ==
    /\ execErr[1] = "nil"
    /\ tgtTree[Dir(TheAction.RelPath)].kind = "dir"
    /\ tgtTree[TheAction.RelPath] = srcTree[TheAction.RelPath]

\* C28, as stated: an Update of a file, like an Add of a file, succeeds when
\* the parent directory of the target path is absent: the directory is
\* created and the file copied.
CexUpdateMakesParent == (Stepped /\ ParentAbsent) => Copied

\* C28, amended: an Add of a file creates the missing directories above the
\* target path and copies the file; an Update of a file creates none: with
\* the parent directory absent it fails with the error of the open of the
\* destination and leaves the target tree as it was; with the parent
\* directory present and no directory at the target path it copies the file.
ThmOnlyAddMakesParent ==
    Stepped =>
      /\ (TheAction.Type = Add /\ ParentAbsent) => Copied
      /\ (TheAction.Type = Update /\ ParentAbsent) =>
            /\ execErr[1] = "ENOENT"
            /\ tgtTree = tgt0
      /\ (TheAction.Type = Update /\ ~TheAction.SourceInfo.IsDir
            /\ tgt0[Dir(TheAction.RelPath)].kind = "dir"
            /\ tgt0[TheAction.RelPath].kind # "dir") => Copied

\* an Update has run with the parent directory absent, below a target root
\* that exists
WitOnlyAddMakesParent ==
    /\ Stepped
    /\ TheAction.Type = Update
    /\ ParentAbsent
    /\ tgt0[Root].kind = "dir"
    /\ execErr[1] = "ENOENT"


\* ------------------------------------------------------------------------
\* Properties of the scan of the source followed by planning
\* ------------------------------------------------------------------------
\* the mapping of a target tree that is the scanned tree node for node, all
\* of it accessible
SameTarget ==
    [ p \in { q \in ScanPaths : Exists(q) /\ Base(q) # IgnoreFileName } |->
        New("target", p, IF scanIn.tree[p].kind = "dir" THEN 0 ELSE SizeOf(scanIn.tree[p].content),
            scanIn.tree[p].mtime, scanIn.tree[p].kind = "dir") ]

\* the plan made of the returned source mapping and that target mapping
PlanOfScan ==
    createSyncPlan(scanRet.results, SameTarget,
                   [ a \in AbsPaths(ScanPaths) |-> ChecksumOk(1) ],
                   Ascending(DOMAIN scanRet.results), Ascending(DOMAIN SameTarget)).plan

\* C29: with no ignore pattern in force, a Delete is planned for a target
\* path only if the source tree has no node at that path or a node of the
\* other kind: a source node left out of the mapping because its metadata
\* could not be read, or because the directory above it could not be listed,
\* does not bring a Delete of the target node at its path.
CexDeleteOnlyAbsent ==
    (Returned /\ scanIn.root = "source" /\ scanIn.ignoreMatcher.matched = {})
      => \A i \in 1..Len(PlanOfScan.Actions) :
           PlanOfScan.Actions[i].Type = Delete =>
             \/ ~Exists(PlanOfScan.Actions[i].RelPath)
             \/ PlanOfScan.Actions[i].TargetInfo.IsDir
                  # (scanIn.tree[PlanOfScan.Actions[i].RelPath].kind = "dir")


\* ------------------------------------------------------------------------
\* Properties of the plan: a digest that fails
\* ------------------------------------------------------------------------
\* the mapping m with the one key p, if it has it
Only(m, p) == [ q \in DOMAIN m \cap {p} |-> m[q] ]

\* the actions createSyncPlan gives path p when p is the only path
Alone(p) ==
    createSyncPlan(Only(sourceFiles, p), Only(targetFiles, p), digests,
                   Ascending(DOMAIN Only(sourceFiles, p)),
                   Ascending(DOMAIN Only(targetFiles, p))).plan.Actions

\* a digest asked for path p returns an error
DigestFails(p) ==
    /\ Inconclusive(p)
    /\ \/ digests[sourceFiles[p].AbsPath].err # "nil"
       \/ digests[targetFiles[p].AbsPath].err # "nil"

\* C30: createSyncPlan always returns a plan and a nil error, so that
\* Syncer.Run goes on to executePlan; a path whose digest fails gets an
\* Update; and every path gets the actions it gets when it is planned
\* alone, also when the digest of another path fails.
ThmNeverAborts ==
    /\ pc \in {"plan", "planned"}
    /\ runErr = "nil"
    /\ Planned =>
         /\ \A p \in Paths :
              /\ SelectSeq(plan.Actions, LAMBDA a : a.RelPath = p) = Alone(p)
              /\ DigestFails(p) => (\E i \in At(p, Update) : AnyAt(p) = {i})
         /\ plan.Adds + plan.Updates + plan.Deletes = Len(plan.Actions)

\* a plan made when the digest of the target file of one path fails, with
\* an Add for a second path and a Delete for a third
WitNeverAborts ==
    /\ Planned /\ runErr = "nil"
    /\ \E p, q, r \in Paths :
         /\ DigestFails(p)
         /\ digests[sourceFiles[p].AbsPath].err = "nil"
         /\ digests[targetFiles[p].AbsPath].err = "EIO"
         /\ At(p, Update) # {}
         /\ At(q, Add) # {} /\ q # p
         /\ At(r, Delete) # {} /\ r # p /\ r # q


\* ------------------------------------------------------------------------
\* Properties of the scan: ignored paths and the ignore file
\* ------------------------------------------------------------------------
\* the plan made of the returned source mapping and an empty target mapping
PlanOntoEmpty ==
    createSyncPlan(scanRet.results, << >>,
                   [ a \in AbsPaths(ScanPaths) |-> ChecksumOk(1) ],
                   Ascending(DOMAIN scanRet.results), << >>).plan

\* the paths of the Adds and Updates of a plan
Written(pl) ==
    { pl.Actions[i].RelPath : i \in { j \in 1..Len(pl.Actions) : pl.Actions[j].Type \in {Add, Update} } }

\* the paths of the source scan that the ignore patterns match, and the
\* ignore file
Excluded == scanIn.ignoreMatcher.matched \cup {IgnoreFileName}

\* C31: in the scan of the source no path that matches the ignore patterns
\* and no ignore file at the root is ever given a goroutine or an entry of
\* the mapping, so the plans made of the returned mapping, onto an empty
\* target and onto a target that has every node of the source, have no Add
\* and no Update for such a path; the scan of the target has no matcher.
ThmIgnoredAbsent ==
    /\ (scanIn # nil /\ scanIn.root = "target") => scanIn.ignoreMatcher = nil
    /\ (scanIn # nil /\ scanIn.root = "source") =>
         /\ \A p \in Excluded : p \notin DOMAIN results /\ p \notin DOMAIN gor
         /\ Returned =>
              /\ DOMAIN scanRet.results \cap Excluded = {}
              /\ Written(PlanOntoEmpty) \cap Excluded = {}
              /\ Written(PlanOfScan) \cap Excluded = {}

\* the scan of a source with an ignore file and an ignored file, both
\* visited, has returned, and the plan onto an empty target adds the
\* directory next to them
WitIgnoredAbsent ==
    /\ Returned /\ scanIn.root = "source"
    /\ Exists(IgnoreFileName) /\ IgnoreFileName \in visited
    /\ pC \in scanIn.ignoreMatcher.matched /\ scanIn.tree[pC].kind = "file" /\ pC \in visited
    /\ pA \in Written(PlanOntoEmpty)


\* ------------------------------------------------------------------------
\* Properties of the scan, the plan and its application: excluded paths
\* in the target
\* ------------------------------------------------------------------------
\* the target tree, equal to the scanned source tree, after the actions of
\* PlanOfScan were applied in plan order
Applied == inPlanOrder(scanIn.tree, scanIn.tree, PlanOfScan.Actions, 1, {}).tree

ActionsAt(pl, p) == { i \in 1..Len(pl.Actions) : pl.Actions[i].RelPath = p }

DeletesAt(pl, p) == { i \in ActionsAt(pl, p) : pl.Actions[i].Type = Delete }

\* the target nodes whose path the ignore patterns match
MatchedInTarget ==
    { p \in scanIn.ignoreMatcher.matched : Exists(p) /\ Base(p) # IgnoreFileName }

\* the target nodes named .sync-ignore
IgnoreFiles == { q \in ScanPaths : Exists(q) /\ Base(q) = IgnoreFileName }

\* a target node the ignore patterns match has exactly one action, a Delete,
\* and is gone after the plan is applied
MatchedAreDeleted ==
    \A p \in MatchedInTarget :
      /\ p \notin DOMAIN scanRet.results
      /\ ActionsAt(PlanOfScan, p) = DeletesAt(PlanOfScan, p)
      /\ Cardinality(DeletesAt(PlanOfScan, p)) = 1
      /\ Applied[p].kind = "none"

\* C32, as stated: a target node the ignore patterns match is planned as a
\* Delete and removed; a node named .sync-ignore has no action and is still
\* in the target after the plan is applied.
CexIgnoreFileKept ==
    (Returned /\ scanIn.root = "source") =>
      /\ MatchedAreDeleted
      /\ \A q \in IgnoreFiles :
           /\ ActionsAt(PlanOfScan, q) = {}
           /\ Applied[q] = scanIn.tree[q]

\* C32, amended: a target node the ignore patterns match is planned as a
\* Delete and removed; a node named .sync-ignore has no action of its own,
\* and after the plan is applied it is still in the target exactly when no
\* directory above it had a Delete.
ThmExcludedDeleted ==
    (Returned /\ scanIn.root = "source") =>
      /\ MatchedAreDeleted
      /\ \A q \in IgnoreFiles :
           /\ ActionsAt(PlanOfScan, q) = {}
           /\ IF \E d \in Ancestors(q) : DeletesAt(PlanOfScan, d) # {}
                THEN Applied[q].kind = "none"
                ELSE Applied[q] = scanIn.tree[q]

\* the directory a is ignored in the source, the target has it with a file
\* named .sync-ignore in it, and one at its root
WitExcludedDeleted ==
    /\ Returned /\ scanIn.root = "source"
    /\ pA \in MatchedInTarget
    /\ {pAI, IgnoreFileName} \subseteq IgnoreFiles
    /\ Applied[pAI].kind = "none"
    /\ Applied[IgnoreFileName].kind = "file"


\* ------------------------------------------------------------------------
\* Properties of Updates and directories
\* ------------------------------------------------------------------------
\* the plan createSyncPlan makes of the two trees of the step
PlanOfTrees ==
    LET sf == scanDirectory("source", srcTree)
        tf == scanDirectory("target", tgt0)
    IN  createSyncPlan(sf, tf, treeDigests(srcTree, tgt0),
                       Ascending(DOMAIN sf), Ascending(DOMAIN tf)).plan

\* C33: the plan of any two trees has no Update whose source entry or
\* target entry is a directory; and an Update whose source entry is a
\* directory, given to the executor all the same, leaves the target tree as
\* it was, records no error and sends nothing on errChan.
ThmNoDirUpdate ==
    /\ \A i \in 1..Len(PlanOfTrees.Actions) :
         PlanOfTrees.Actions[i].Type = Update =>
           /\ ~PlanOfTrees.Actions[i].SourceInfo.IsDir
           /\ ~PlanOfTrees.Actions[i].TargetInfo.IsDir
    /\ (Stepped /\ TheAction.Type = Update /\ TheAction.SourceInfo.IsDir) =>
         /\ tgtTree = tgt0
         /\ execErr[1] = "nil"
         /\ errChan = << >>

\* an Update of a directory has run on a target that has a file at the path
\* of the directory, and the plan of the two trees has an Update of a file
WitNoDirUpdate ==
    /\ Stepped /\ TheAction.Type = Update /\ TheAction.SourceInfo.IsDir
    /\ tgt0[TheAction.RelPath].kind = "file"
    /\ \E i \in 1..Len(PlanOfTrees.Actions) : PlanOfTrees.Actions[i].Type = Update


\* ------------------------------------------------------------------------
\* Properties of the plan: the entries an action carries
\* ------------------------------------------------------------------------
\* C34: in every plan an Add carries a source entry and no target entry, an
\* Update carries both, and a Delete carries a target entry and no source
\* entry.
CexEntries ==
    Planned =>
      \A i \in 1..Len(plan.Actions) :
        LET act == plan.Actions[i]
        IN  /\ act.Type = Add => (act.SourceInfo # nil /\ act.TargetInfo = nil)
            /\ act.Type = Update => (act.SourceInfo # nil /\ act.TargetInfo # nil)
            /\ act.Type = Delete => (act.SourceInfo = nil /\ act.TargetInfo # nil)


\* ------------------------------------------------------------------------
\* Properties of the plan: the order of the Adds
\* ------------------------------------------------------------------------
\* C35: in every plan the Add of a directory is before the Add of each path
\* below the directory.
ThmParentAddFirst ==
    Planned =>
      \A i, j \in 1..Len(plan.Actions) :
        ( /\ plan.Actions[i].Type = Add /\ plan.Actions[j].Type = Add
          /\ plan.Actions[i].SourceInfo.IsDir
          /\ IsAncestor(plan.Actions[i].RelPath, plan.Actions[j].RelPath) ) => i < j

\* a plan that replaces a file by a directory and adds a file in the
\* directory, with one more Add
WitParentAddFirst ==
    /\ Planned
    /\ Mismatch(pA) /\ sourceFiles[pA].IsDir
    /\ At(pA, Add) # {} /\ At(pAB, Add) # {} /\ At(pC, Add) # {}

\* ------------------------------------------------------------------------
\* Properties of the pool's start and stop
\* ------------------------------------------------------------------------
\* a step of a worker or the return of stopChecksumWorkers can be taken
StopAdvances ==
    ENABLED (Receive \/ (\E job \in workers.jobs : Deliver(job)) \/ WorkerExit \/ StopReturn)

\* the callers that took the mutex after stopChecksumWorkers returned
Afterwards == { c \in DOMAIN callers : callers[c].seen = 2 }

\* C36: before stopChecksumWorkers is called, however many first calls of
\* calculateSHA256 overlap, one job channel was made when the pool is started
\* and none otherwise, and checksumWorkerCount workers run for it;
\* stopChecksumWorkers called while no digest is in flight can always go on,
\* no call panics, all workers have ended when it has returned, and a call
\* made afterwards makes a second channel with checksumWorkerCount workers,
\* has exactly one job or result under way while it waits and returns the
\* digest or the error of its file.
ThmLifecycle ==
    /\ stopper.pc = "idle" =>
         /\ chanGen = (IF checksumWorkersStarted THEN 1 ELSE 0)
         /\ workers.count = checksumWorkerCount * chanGen
    /\ stopper.quiet =>
         /\ ~Crashed
         /\ stopper.pc = "waiting" => StopAdvances
         /\ (stopper.pc = "done" /\ ~checksumWorkersStarted) =>
              workers = [count |-> 0, jobs |-> {}]
         /\ chanGen <= 2
         /\ Afterwards # {} => /\ checksumWorkersStarted /\ ~jobChanClosed
                               /\ chanGen = 2
                               /\ workers.count = checksumWorkerCount
         /\ \A c \in Afterwards :
              /\ Pending(c) = IF callers[c].pc = "wait" THEN 1 ELSE 0
              /\ callers[c].pc = "returned" => callers[c].ret = Expected(c)

\* two calls started the pool together and returned, stopChecksumWorkers ran
\* in the quiet and returned, and the third call then started a second pool
\* and returned
WitLifecycle ==
    /\ stopper = Stopper("done", TRUE)
    /\ chanGen = 2
    /\ \E c \in Afterwards : callers[c].pc = "returned" /\ callers[c].ret.err = "nil"
    /\ \E c, d \in DOMAIN callers :
         /\ c # d
         /\ callers[c].seen = 1 /\ callers[c].pc = "returned"
         /\ callers[d].seen = 1 /\ callers[d].pc = "returned"

\* C37: no call of calculateSHA256 sends on a closed channel, whenever
\* stopChecksumWorkers runs.
CexNoClosedSend == ~Crashed

\* ------------------------------------------------------------------------
\* Termination of executePlan
\* ------------------------------------------------------------------------
\* a bound on the system calls removeAllFrom makes for the node q: five
\* for the node itself and as many for every node below it
removeCost(q) == 5 * (1 + Cardinality({ x \in DOMAIN tgtTree : IsAncestor(q, x) }))

RECURSIVE namesCost(_)
namesCost(names) ==
    IF names = << >> THEN 0 ELSE removeCost(Head(names)) + namesCost(Tail(names))

\* the system calls the calls of removeAllFrom below the innermost have
\* yet to make: those for the names left and the unlinkat of the directory
RECURSIVE loopsLeft(_, _)
loopsLeft(stack, k) ==
    IF k >= Len(stack) THEN 0
    ELSE namesCost(stack[k].names) + 1 + loopsLeft(stack, k + 1)

\* a bound on the system calls a goroutine inside os.MkdirAll, os.Remove or
\* os.RemoveAll has yet to make there.  os.MkdirAll calls os.Stat once for
\* the path and for each directory above it, and os.Mkdir and os.Lstat once
\* for each on the way back.
callsLeft(c) ==
    IF c = nil THEN 0
    ELSE IF c.op = "stat"
      THEN Cardinality(Ancestors(c.path)) + 2 * Cardinality(Ancestors(c.dir)) + 3
    ELSE IF c.op = "mkdir"
      THEN 2 * (Cardinality(Ancestors(c.dir)) - Cardinality(Ancestors(c.path))) + 2
    ELSE IF c.op = "lstat"
      THEN 2 * (Cardinality(Ancestors(c.dir)) - Cardinality(Ancestors(c.path))) + 1
    ELSE LET q == c.stack[Len(c.stack)].path
         IN  loopsLeft(c.stack, 1)
               + (IF c.op = "rmdir" THEN removeCost(q) + 2
                  ELSE IF c.op = "open" THEN removeCost(q) + 1
                  ELSE IF c.op = "unlinkat" THEN removeCost(q)
                  ELSE IF c.op = "fstatat" THEN removeCost(q) - 1
                  ELSE IF c.op = "openat" THEN removeCost(q) - 2
                  ELSE IF c.op = "readdir" THEN removeCost(q) - 3
                  ELSE 1)

\* the most system calls os.RemoveAll makes after its first unlink, and the
\* most os.MkdirAll makes after its first os.Stat
removeBound == 5 * Cardinality(Nodes) + 2

mkdirBound == 3 * Cardinality(Nodes) + 3

\* the steps a goroutine in the given position has yet to take when it is
\* not inside os.MkdirAll, os.Remove or os.RemoveAll, the steps of the loop
\* for it included, less those counted by sem and wg
rank(position) ==
    [ idle |-> removeBound + mkdirBound + 8, waiting |-> removeBound + mkdirBound + 6,
      started |-> removeBound + mkdirBound + 4, mid |-> removeBound + 2, created |-> 6,
      read |-> 5, locked |-> 4, unlocked |-> 3, written |-> 2, sending |-> 1,
      deferred |-> 0 ][position]

\* the steps the goroutine of action i has yet to take: inside
\* os.MkdirAll the calls left there and the steps from the call after it,
\* inside os.Remove or os.RemoveAll the calls left there and the send
rankOf(positions, calls, i) ==
    IF calls[i] = nil THEN rank(positions[i])
    ELSE callsLeft(calls[i]) + rank(IF positions[i] = "started" THEN "mid" ELSE "sending")

RECURSIVE sumRank(_, _, _)
sumRank(positions, calls, k) ==
    IF k > Len(positions) THEN 0
    ELSE rankOf(positions, calls, k) + sumRank(positions, calls, k + 1)

\* a bound on the number of steps executePlan has yet to take before
\* wg.Wait() returns
stepsLeft == sumRank(st, inCall, 1) + sem + wg

\* the goroutines whose function has returned and that have yet to run
\* their deferred <-sem
Holding == sem - Cardinality(Running)

\* the goroutines that have yet to run their deferred wg.Done()
Counted == wg - Cardinality(Waiting)

ExecSafe ==
    /\ pc = "exec" =>
         \* some goroutine, or the loop, can take a step
         /\ ENABLED ExecStep
         \* the loop waits for a slot only while a goroutine holds one, and
         \* each of these can go on: to its next call, to its send, which
         \* finds room in errChan, or to its deferred <-sem
         /\ (Waiting # {} /\ ~canAcquire(sem)) => (Running # {} \/ Holding > 0)
         /\ \A i \in Running : st[i] = "sending" => ENABLED Send(i)
         \* a copy waits for copyMu only while another copy holds it, and
         \* that one can give it back
         /\ copyMu <=> (\E i \in Running : st[i] = "locked")
         /\ Cardinality({ i \in Running : st[i] = "locked" }) <= 1
         /\ Len(errChan) + Cardinality({ i \in DOMAIN st : execErr[i] # "nil" /\ st[i] = "sending" })
              <= errChanCap
         \* wg.Wait() returns when the last goroutine has called Done
         /\ (next > Len(plan.Actions) /\ Running = {} /\ Holding = 0 /\ Counted = 0) => wg = 0
    \* the slots taken are those of the goroutines in their function and of
    \* those that have yet to run <-sem, whether or not their action failed;
    \* a goroutine calls Done after it gave its slot back
    /\ Holding >= 0
    /\ Counted >= sem
    /\ stepsLeft >= 0
    \* only a goroutine in its switch is inside os.MkdirAll, os.Remove or
    \* os.RemoveAll
    /\ \A i \in DOMAIN st : inCall[i] # nil => st[i] \in {"started", "mid"}
    /\ Holding <= Cardinality({ i \in DOMAIN st : st[i] = "deferred" })
    \* an error is in errChan only after its goroutine has sent it
    /\ \A k \in DOMAIN errChan : st[errChan[k].action] = "deferred"
    \* when errChan was closed every goroutine had returned, given its slot
    \* back and called Done
    /\ Ran => /\ \A i \in DOMAIN st : st[i] = "deferred"
              /\ errChan = << >>
              /\ sem = 0 /\ wg = 0
              /\ Len(errors) = Cardinality(Failed)

\* by how much a step lowers the ranks of the goroutines in S
RECURSIVE fall(_)
fall(S) ==
    IF S = {} THEN 0
    ELSE LET i == CHOOSE j \in S : TRUE
         IN  rankOf(st, inCall, i) - rankOf(st', inCall', i) + fall(S \ {i})

\* every step of executePlan after the confirmation takes it nearer to its
\* return: stepsLeft falls, here computed from the goroutines that moved
ExecNearer ==
    (pc = "exec" /\ pc' = "exec") =>
        fall({ i \in DOMAIN st : st'[i] # st[i] \/ inCall'[i] # inCall[i] })
          + (sem - sem') + (wg - wg') > 0

\* C38: a confirmed executePlan that is not a dry run returns when some
\* goroutine that can take a step always takes one in the end: in every
\* state before the return a step can be taken and every step lowers a
\* bound on the steps left.  The dispatch loop waits for a slot only while
\* a goroutine holds one, every goroutine that is to send finds room in
\* errChan, a goroutine whose function has returned gives its slot back
\* whether or not its action failed, and every goroutine has sent its
\* error when errChan is closed.
ThmTerminates == []ExecSafe /\ [][ExecNearer]_vars

\* executePlan has returned after a plan longer than the semaphore is wide
\* of which one action failed
WitTerminates ==
    /\ Ran
    /\ Len(plan.Actions) > maxConcurrentOps
    /\ Failed # {}
    /\ Len(errors) = 1

====
